---- MODULE Spec2Model ----
(***************************************************************************)
(* Model of the AI chat cog of Logiq212 (src/cogs/ai_chat.py) and of its   *)
(* helpers (src/utils/ai_keys.py, src/utils/openrouter.py,                 *)
(* src/utils/logs.py): the per-guild concurrency gate, the key pool        *)
(* scheduler and the failover loop of _call_openrouter.                    *)
(*                                                                         *)
(* Times are whole seconds.  A text is a record [text, len]: the string    *)
(* and the number of characters of it that are kept, so that the slices    *)
(* message[:MAX_STATUS_TEXT] and text[:MAX_STATUS_TEXT] are modelled by    *)
(* what they do.  Python's None is NoneVal for numbers and times and       *)
(* NoneMsg for texts.                                                      *)
(***************************************************************************)
EXTENDS Integers, Sequences, FiniteSets, TLC

VARIABLES
    now,            \* the wall clock read by AIChat._now
    secret_env,     \* whether LOGIQ_AI_KEY_ENC_SECRET is set in the environment
    keys,           \* the credential store: key name -> stored document
    disp,           \* each dispatch (_call_openrouter activation): its locals
    upstream,       \* history: the upstream calls made, in order
    decrypted,      \* history: the decrypt_api_key calls made, in order
    notified,       \* history: the operator notifications attempted, in order
    ticks,          \* how often the clock has advanced
    guild_inflight, \* AIChat.guild_inflight: guild -> count, absent when idle
    guild_locks,    \* AIChat.guild_locks: guild -> holder of its asyncio.Lock
    gate,           \* each task calling the gate: its position and locals
    ceiling,        \* the max_concurrent the callers pass to the gate
    acq_log,        \* history: per guild, the acquire calls started, returned, admitted
    rel_calls,      \* history: per guild, how many release calls have started
    requests,       \* each task running _run_ai_request: its position and history
    evald,          \* the last application of a pure function: inputs and result
    mono,           \* time.monotonic(), in tenths of a second
    user_cooldowns, \* AIChat.user_cooldowns: << guild, user >> -> time of the last commit
    channel_cooldowns, \* AIChat.channel_cooldowns: << guild, channel >> -> the same
    sessions,       \* the session store: << guild, user, channel >> -> stored roles
    settings,       \* the policy store: guild -> stored settings document
    chat            \* each task running a whole request: its position and locals

vars == << now, secret_env, keys, disp, upstream, decrypted, notified, ticks,
           guild_inflight, guild_locks, gate, ceiling, acq_log, rel_calls,
           requests, evald,
           mono, user_cooldowns, channel_cooldowns, sessions, settings, chat >>

dispatchVars == << now, secret_env, keys, disp, upstream, decrypted, notified, ticks >>

gateVars == << guild_inflight, guild_locks, gate, ceiling, acq_log, rel_calls >>

chatVars == << mono, user_cooldowns, channel_cooldowns, sessions, settings, chat >>

(***************************************************************************)
(* Bounds of the model.                                                    *)
(***************************************************************************)
NumKeys == 4

MaxTicks == 1

Now0 == 1000

RpmLimit == 3

RpdLimit == 5

NumTasks == 3

MaxCalls == 4

MaxCeiling == 2

NumGuilds == 1

\* the reading of the monotonic clock at the start, in tenths of a second
Mono0 == 1000

\* the longest cooldown of a policy, in seconds
MaxCooldown == 3

\* the actors of a guild
NumUsers == 2

\* the longest stored history _trim_messages is applied to
MaxMessages == 10

\* the largest cap on user turns
MaxTurns == 3

(***************************************************************************)
(* Program constants.                                                      *)
(***************************************************************************)
MAX_KEY_ATTEMPTS_Four == 3 + 1

MAX_KEY_ATTEMPTS == 3

DEFAULT_RATE_LIMIT_COOLDOWN_SECONDS_Short == 30 - 10

DEFAULT_RATE_LIMIT_COOLDOWN_SECONDS == 30

DEFAULT_SERVER_ERROR_COOLDOWN_SECONDS_Long == 20 + 10

DEFAULT_SERVER_ERROR_COOLDOWN_SECONDS == 20

MAX_STATUS_TEXT == 600

MINUTE_WINDOW_SECONDS == 60

DAY_WINDOW_SECONDS == 86400

NoneVal == -1

DATETIME_MIN == -2

Min(a, b) == IF a <= b THEN a ELSE b

Max(a, b) == IF a >= b THEN a ELSE b

(***************************************************************************)
(* Texts.                                                                  *)
(***************************************************************************)
Lit(s, n) == [text |-> s, len |-> n]

NoneMsg == [text |-> "<None>", len |-> NoneVal]

\* text[:limit]
Slice(m, limit) == IF m.len > limit THEN [m EXCEPT !.len = limit] ELSE m

\* Python truthiness of an Optional[str]
TruthyMsg(m) == m # NoneMsg /\ m.len > 0

(***************************************************************************)
(* The secret capability (src/utils/ai_keys.py).  A stored payload is one  *)
(* of PayloadKinds; decrypt_api_key raises the exception class Python      *)
(* raises for it, or returns the plaintext.                                *)
(***************************************************************************)
PayloadKinds ==
    { "valid", "bad_base64", "auth_fail", "bad_utf8", "missing_field" }

\* _get_secret_key: ValueError when the environment variable is unset or empty
get_secret_key(env) ==
    IF ~env
    THEN [raised |-> "ValueError", msg |-> Lit("LOGIQ_AI_KEY_ENC_SECRET is not set", 34)]
    ELSE [raised |-> "none", msg |-> NoneMsg]

\* decrypt_api_key(payload): the secret key first, then the fields, the
\* base64 decoding, SecretBox.decrypt and the UTF-8 decoding, in that order
decrypt_api_key(payload, env) ==
    IF get_secret_key(env).raised # "none" THEN get_secret_key(env)
    ELSE CASE payload = "missing_field" ->
                [raised |-> "KeyError", msg |-> Lit("'nonce'", 7)]
           [] payload = "bad_base64" ->
                [raised |-> "binascii.Error", msg |-> Lit("Incorrect padding", 17)]
           [] payload = "auth_fail" ->
                [raised |-> "CryptoError",
                 msg |-> Lit("Decryption failed. Ciphertext failed verification", 49)]
           [] payload = "bad_utf8" ->
                [raised |-> "UnicodeDecodeError",
                 msg |-> Lit("'utf-8' codec can't decode byte 0x80 in position 0: invalid start byte", 70)]
           [] OTHER -> [raised |-> "none", msg |-> NoneMsg]

IsValueError_NoClause(cls) == FALSE

\* Python's class hierarchy: what `except ValueError` catches
IsValueError(cls) == cls \in { "ValueError", "binascii.Error", "UnicodeDecodeError" }

(***************************************************************************)
(* Credential documents.                                                   *)
(***************************************************************************)
KeyNames == 1..NumKeys

\* the record ai_admin_keys_add stores, added at time t
NewKeyDoc(name, payload, t) ==
    [ name |-> name,
      encrypted_api_key |-> payload,
      rpm_limit |-> RpmLimit,
      rpd_limit |-> RpdLimit,
      enabled |-> TRUE,
      minute_window_count |-> 0,
      minute_window_started_at |-> t,
      day_count |-> 0,
      day_started_at |-> t,
      last_used_at |-> NoneVal,
      cooldown_until |-> NoneVal,
      last_error |-> NoneMsg,
      last_error_code |-> NoneVal,
      last_error_at |-> NoneVal,
      updated_at |-> t ]

\* _ensure_utc: None stays None, a naive datetime is read as UTC (the same instant)
ensure_utc(value) == IF value = NoneVal THEN NoneVal ELSE value

window_state_StrictExpiry(start, count, window_seconds, t) ==
    LET s == ensure_utc(start)
        c == IF count = NoneVal THEN 0 ELSE count
    IN  IF s = NoneVal \/ (t - s) > window_seconds
        THEN << t, 0 >>
        ELSE << s, c >>

\* _window_state
window_state(start, count, window_seconds, t) ==
    LET s == ensure_utc(start)
        c == IF count = NoneVal THEN 0 ELSE count
    IN  IF s = NoneVal \/ (t - s) >= window_seconds
        THEN << t, 0 >>
        ELSE << s, c >>

NoCandidate == [ none |-> TRUE ]

build_key_candidate_IgnoresCooldown(doc, t) ==
    LET minute == window_state(doc.minute_window_started_at, doc.minute_window_count,
                               MINUTE_WINDOW_SECONDS, t)
        day == window_state(doc.day_started_at, doc.day_count, DAY_WINDOW_SECONDS, t)
    IN  IF ~doc.enabled THEN NoCandidate
        ELSE IF doc.rpm_limit <= 0 \/ doc.rpd_limit <= 0 THEN NoCandidate
        ELSE IF minute[2] >= doc.rpm_limit \/ day[2] >= doc.rpd_limit THEN NoCandidate
        ELSE [ doc |-> doc,
               score_num |-> 4 * (doc.rpm_limit - minute[2]) * doc.rpd_limit
                             + 6 * (doc.rpd_limit - day[2]) * doc.rpm_limit,
               score_den |-> 10 * doc.rpm_limit * doc.rpd_limit,
               minute_start |-> minute[1],
               minute_count |-> minute[2],
               day_start |-> day[1],
               day_count |-> day[2],
               last_used_at |-> ensure_utc(doc.last_used_at) ]

build_key_candidate_FlippedQuota(doc, t) ==
    LET minute == window_state(doc.minute_window_started_at, doc.minute_window_count,
                               MINUTE_WINDOW_SECONDS, t)
        day == window_state(doc.day_started_at, doc.day_count, DAY_WINDOW_SECONDS, t)
    IN  IF ~doc.enabled THEN NoCandidate
        ELSE IF doc.cooldown_until # NoneVal /\ t < doc.cooldown_until THEN NoCandidate
        ELSE IF doc.rpm_limit <= 0 \/ doc.rpd_limit <= 0 THEN NoCandidate
        ELSE IF minute[2] <= doc.rpm_limit \/ day[2] <= doc.rpd_limit THEN NoCandidate
        ELSE [ doc |-> doc,
               score_num |-> 4 * (doc.rpm_limit - minute[2]) * doc.rpd_limit
                             + 6 * (doc.rpd_limit - day[2]) * doc.rpm_limit,
               score_den |-> 10 * doc.rpm_limit * doc.rpd_limit,
               minute_start |-> minute[1],
               minute_count |-> minute[2],
               day_start |-> day[1],
               day_count |-> day[2],
               last_used_at |-> ensure_utc(doc.last_used_at) ]

\* _build_key_candidate; the score (0.4 * rpm share + 0.6 * rpd share) is kept
\* as the exact fraction score_num / score_den
build_key_candidate_QuotaOffByOne(doc, t) ==
    LET cooldown_until == ensure_utc(doc.cooldown_until)
        rpm_limit == doc.rpm_limit
        rpd_limit == doc.rpd_limit
        minute == window_state(doc.minute_window_started_at, doc.minute_window_count,
                               MINUTE_WINDOW_SECONDS, t)
        day == window_state(doc.day_started_at, doc.day_count, DAY_WINDOW_SECONDS, t)
    IN  IF ~doc.enabled THEN NoCandidate
        ELSE IF cooldown_until # NoneVal /\ t < cooldown_until THEN NoCandidate
        ELSE IF rpm_limit <= 0 \/ rpd_limit <= 0 THEN NoCandidate
        ELSE IF minute[2] > rpm_limit \/ day[2] > rpd_limit THEN NoCandidate
        ELSE [ doc |-> doc,
               score_num |-> 4 * (rpm_limit - minute[2]) * rpd_limit
                             + 6 * (rpd_limit - day[2]) * rpm_limit,
               score_den |-> 10 * rpm_limit * rpd_limit,
               minute_start |-> minute[1],
               minute_count |-> minute[2],
               day_start |-> day[1],
               day_count |-> day[2],
               last_used_at |-> ensure_utc(doc.last_used_at) ]

build_key_candidate_GatesOnError(doc, t) ==
    LET cooldown_until == ensure_utc(doc.cooldown_until)
        rpm_limit == doc.rpm_limit
        rpd_limit == doc.rpd_limit
        minute == window_state(doc.minute_window_started_at, doc.minute_window_count,
                               MINUTE_WINDOW_SECONDS, t)
        day == window_state(doc.day_started_at, doc.day_count, DAY_WINDOW_SECONDS, t)
    IN  IF ~doc.enabled THEN NoCandidate
        ELSE IF doc.last_error_code \in { 401, 402 } THEN NoCandidate
        ELSE IF cooldown_until # NoneVal /\ t < cooldown_until THEN NoCandidate
        ELSE IF rpm_limit <= 0 \/ rpd_limit <= 0 THEN NoCandidate
        ELSE IF minute[2] >= rpm_limit \/ day[2] >= rpd_limit THEN NoCandidate
        ELSE [ doc |-> doc,
               score_num |-> 4 * (rpm_limit - minute[2]) * rpd_limit
                             + 6 * (rpd_limit - day[2]) * rpm_limit,
               score_den |-> 10 * rpm_limit * rpd_limit,
               minute_start |-> minute[1],
               minute_count |-> minute[2],
               day_start |-> day[1],
               day_count |-> day[2],
               last_used_at |-> ensure_utc(doc.last_used_at) ]

build_key_candidate(doc, t) ==
    LET cooldown_until == ensure_utc(doc.cooldown_until)
        rpm_limit == doc.rpm_limit
        rpd_limit == doc.rpd_limit
        minute == window_state(doc.minute_window_started_at, doc.minute_window_count,
                               MINUTE_WINDOW_SECONDS, t)
        day == window_state(doc.day_started_at, doc.day_count, DAY_WINDOW_SECONDS, t)
    IN  IF ~doc.enabled THEN NoCandidate
        ELSE IF cooldown_until # NoneVal /\ t < cooldown_until THEN NoCandidate
        ELSE IF rpm_limit <= 0 \/ rpd_limit <= 0 THEN NoCandidate
        ELSE IF minute[2] >= rpm_limit \/ day[2] >= rpd_limit THEN NoCandidate
        ELSE [ doc |-> doc,
               score_num |-> 4 * (rpm_limit - minute[2]) * rpd_limit
                             + 6 * (rpd_limit - day[2]) * rpm_limit,
               score_den |-> 10 * rpm_limit * rpd_limit,
               minute_start |-> minute[1],
               minute_count |-> minute[2],
               day_start |-> day[1],
               day_count |-> day[2],
               last_used_at |-> ensure_utc(doc.last_used_at) ]

SortsBefore_AscendingScore(a, b) ==
    LET ta == IF a.last_used_at = NoneVal THEN DATETIME_MIN ELSE a.last_used_at
        tb == IF b.last_used_at = NoneVal THEN DATETIME_MIN ELSE b.last_used_at
    IN  \/ a.score_num * b.score_den < b.score_num * a.score_den
        \/ /\ a.score_num * b.score_den = b.score_num * a.score_den
           /\ ta < tb

\* the sort key (-score, last_used_at or datetime.min): a sorts strictly before b
SortsBefore(a, b) ==
    LET ta == IF a.last_used_at = NoneVal THEN DATETIME_MIN ELSE a.last_used_at
        tb == IF b.last_used_at = NoneVal THEN DATETIME_MIN ELSE b.last_used_at
    IN  \/ a.score_num * b.score_den > b.score_num * a.score_den
        \/ /\ a.score_num * b.score_den = b.score_num * a.score_den
           /\ ta < tb

\* list.sort is stable: x goes after every element that does not sort after it
RECURSIVE InsertSorted(_, _)
InsertSorted(s, x) ==
    IF s = << >> THEN << x >>
    ELSE IF SortsBefore(x, s[1]) THEN << x >> \o s
    ELSE << s[1] >> \o InsertSorted(Tail(s), x)

RECURSIVE SortCandidates(_)
SortCandidates(s) ==
    IF s = << >> THEN << >>
    ELSE InsertSorted(SortCandidates(SubSeq(s, 1, Len(s) - 1)), s[Len(s)])

\* the for loop of _select_key_candidates over the listed documents
RECURSIVE BuildCandidates(_, _, _)
BuildCandidates(store, names, t) ==
    IF names = << >> THEN << >>
    ELSE LET c == build_key_candidate(store[names[1]], t)
             rest == BuildCandidates(store, Tail(names), t)
         IN  IF c = NoCandidate THEN rest ELSE << c >> \o rest

\* db.list_ai_api_keys: the stored documents, in the store's order
RECURSIVE ListKeys(_, _)
ListKeys(store, n) ==
    IF n = 0 THEN << >>
    ELSE IF n \in DOMAIN store THEN Append(ListKeys(store, n - 1), n)
    ELSE ListKeys(store, n - 1)

\* _select_key_candidates
select_key_candidates(store, t) ==
    SortCandidates(BuildCandidates(store, ListKeys(store, NumKeys), t))

\* db.update_ai_api_key(guild_id, name, update): sets the named fields of the
\* stored document, nothing when no document has that name
update_ai_api_key(store, name, update) ==
    IF name \notin DOMAIN store THEN store
    ELSE [ store EXCEPT ![name] =
             [ f \in DOMAIN store[name] |->
                 IF f \in DOMAIN update THEN update[f] ELSE store[name][f] ] ]

\* _update_key_usage: the reservation written before the upstream call
update_key_usage_AtomicIncrement(store, doc, candidate, t) ==
    update_ai_api_key(store, doc.name,
        [ minute_window_started_at |-> candidate.minute_start,
          minute_window_count |-> store[doc.name].minute_window_count + 1,
          day_started_at |-> candidate.day_start,
          day_count |-> store[doc.name].day_count + 1,
          last_used_at |-> t,
          last_error |-> NoneMsg,
          last_error_code |-> NoneVal,
          last_error_at |-> NoneVal,
          updated_at |-> t ])

update_key_usage_NoIncrement(store, doc, candidate, t) ==
    update_ai_api_key(store, doc.name,
        [ minute_window_started_at |-> candidate.minute_start,
          minute_window_count |-> candidate.minute_count,
          day_started_at |-> candidate.day_start,
          day_count |-> candidate.day_count,
          last_used_at |-> t,
          last_error |-> NoneMsg,
          last_error_code |-> NoneVal,
          last_error_at |-> NoneVal,
          updated_at |-> t ])

update_key_usage_Reenables(store, doc, candidate, t) ==
    update_ai_api_key(store, doc.name,
        [ minute_window_started_at |-> candidate.minute_start,
          minute_window_count |-> candidate.minute_count + 1,
          day_started_at |-> candidate.day_start,
          day_count |-> candidate.day_count + 1,
          last_used_at |-> t,
          last_error |-> NoneMsg,
          last_error_code |-> NoneVal,
          last_error_at |-> NoneVal,
          enabled |-> TRUE,
          updated_at |-> t ])

update_key_usage(store, doc, candidate, t) ==
    update_ai_api_key(store, doc.name,
        [ minute_window_started_at |-> candidate.minute_start,
          minute_window_count |-> candidate.minute_count + 1,
          day_started_at |-> candidate.day_start,
          day_count |-> candidate.day_count + 1,
          last_used_at |-> t,
          last_error |-> NoneMsg,
          last_error_code |-> NoneVal,
          last_error_at |-> NoneVal,
          updated_at |-> t ])

set_key_error_update_NoCooldown(code, message, cooldown_seconds, disable, t) ==
    LET base == [ last_error_code |-> code,
                  last_error |-> Slice(message, MAX_STATUS_TEXT),
                  last_error_at |-> t,
                  updated_at |-> t ]
        dis  == IF disable THEN [ enabled |-> FALSE ] ELSE << >>
    IN  [ f \in DOMAIN base \cup DOMAIN dis |->
            IF f \in DOMAIN dis THEN dis[f] ELSE base[f] ]

\* the update document _set_key_error builds
set_key_error_update(code, message, cooldown_seconds, disable, t) ==
    LET base == [ last_error_code |-> code,
                  last_error |-> Slice(message, MAX_STATUS_TEXT),
                  last_error_at |-> t,
                  updated_at |-> t ]
        cool == IF cooldown_seconds # NoneVal /\ cooldown_seconds # 0
                THEN [ cooldown_until |-> t + cooldown_seconds ]
                ELSE << >>
        dis  == IF disable THEN [ enabled |-> FALSE ] ELSE << >>
    IN  [ f \in DOMAIN base \cup DOMAIN cool \cup DOMAIN dis |->
            IF f \in DOMAIN dis THEN dis[f]
            ELSE IF f \in DOMAIN cool THEN cool[f]
            ELSE base[f] ]

\* _set_key_error
set_key_error(store, doc, code, message, cooldown_seconds, disable, t) ==
    update_ai_api_key(store, doc.name,
                      set_key_error_update(code, message, cooldown_seconds, disable, t))

(***************************************************************************)
(* The upstream completion call (src/utils/openrouter.py).  A response is  *)
(* its status, its body and its Retry-After header; a body is one of       *)
(* BodyKinds, of which BodyText is the raw text and JsonLoads the parsed   *)
(* value.                                                                  *)
(***************************************************************************)
BodyKinds ==
    { "completion",    \* {"choices": [{"message": {"content": "Hello"}}]}
      "null_content",  \* {"choices": [{"message": {"content": null}}]}
      "no_choices",    \* {"id": "gen-1"}
      "empty_obj",     \* {}
      "not_json",      \* an HTML error page, 700 characters
      "empty",         \* no body
      "err_obj",       \* {"error": {"message": "No endpoints found"}}
      "err_str" }      \* {"error": "Bad gateway"}

BodyText(body) ==
    CASE body = "completion"   -> Lit("{\"choices\": [{\"message\": {\"content\": \"Hello\"}}]}", 46)
      [] body = "null_content" -> Lit("{\"choices\": [{\"message\": {\"content\": null}}]}", 43)
      [] body = "no_choices"   -> Lit("{\"id\": \"gen-1\"}", 15)
      [] body = "empty_obj"    -> Lit("{}", 2)
      [] body = "not_json"     -> Lit("<html>...", 700)
      [] body = "empty"        -> Lit("", 0)
      [] body = "err_obj"      -> Lit("{\"error\": {\"message\": \"No endpoints found\"}}", 43)
      [] body = "err_str"      -> Lit("{\"error\": \"Bad gateway\"}", 24)

\* request_json lines 35-41: data is None for an empty text and for a text
\* json.loads rejects, the parsed value otherwise
JsonLoads(body) ==
    IF BodyText(body).len = 0 \/ body = "not_json" THEN "None" ELSE body

\* Python truthiness of the parsed value: None and {} are falsy
TruthyData(data) == data \notin { "None", "empty_obj" }

IsDict(data) == data # "None"

CompletionContent_WrongPath(data) == [raised |-> "KeyError", value |-> NoneMsg]

\* data["choices"][0]["message"]["content"]
CompletionContent(data) ==
    CASE data = "completion"   -> [raised |-> "none", value |-> Lit("Hello", 5)]
      [] data = "null_content" -> [raised |-> "none", value |-> NoneMsg]
      [] OTHER                 -> [raised |-> "KeyError", value |-> NoneMsg]

\* lines 397-405: the error message taken from the body
ErrorMessage(body) ==
    LET data == JsonLoads(body)
        text == BodyText(body)
        from_data ==
            IF IsDict(data)
            THEN CASE data = "err_obj" -> Lit("No endpoints found", 18)
                   [] data = "err_str" -> Lit("Bad gateway", 11)
                   [] OTHER -> NoneMsg
            ELSE NoneMsg
    IN  IF TruthyMsg(from_data) THEN from_data
        ELSE IF TruthyMsg(text) THEN Slice(text, MAX_STATUS_TEXT)
        ELSE Lit("OpenRouter error", 16)

\* A Retry-After header: absent, or a string that is a decimal number (its
\* value in tenths of a second), "inf", or not a number ("soon", an HTTP date)
AbsentHeader == [kind |-> "absent", tenths |-> 0]

NumberHeader(tenths) == [kind |-> "number", tenths |-> tenths]

RetryAfterHeaders ==
    { AbsentHeader, NumberHeader(125), NumberHeader(0),
      [kind |-> "text", tenths |-> 0], [kind |-> "inf", tenths |-> 0] }

\* int(float(s)): truncation toward zero
IntOfFloat(tenths) == IF tenths >= 0 THEN tenths \div 10 ELSE 0 - ((0 - tenths) \div 10)

\* lines 408-414: the cooldown of a 429; int(float("inf")) raises
\* OverflowError, which `except ValueError` does not catch
RetryAfterCooldown(h) ==
    CASE h.kind = "absent" ->
            [raised |-> "none", value |-> DEFAULT_RATE_LIMIT_COOLDOWN_SECONDS]
      [] h.kind = "number" ->
            [raised |-> "none", value |-> IntOfFloat(h.tenths)]
      [] h.kind = "text" ->
            [raised |-> "none", value |-> DEFAULT_RATE_LIMIT_COOLDOWN_SECONDS]
      [] h.kind = "inf" ->
            [raised |-> "OverflowError", value |-> NoneVal]

HttpResponse(status, body, h) ==
    [kind |-> "http", status |-> status, body |-> body, retry_after |-> h]

TransportFailure ==
    [kind |-> "exception", status |-> NoneVal, body |-> "empty", retry_after |-> AbsentHeader]

NoResponse ==
    [kind |-> "none", status |-> NoneVal, body |-> "empty", retry_after |-> AbsentHeader]

\* what request_json can come back with
Responses ==
    { HttpResponse(200, b, AbsentHeader) :
        b \in { "completion", "null_content", "no_choices", "empty_obj", "not_json", "empty" } }
    \cup { HttpResponse(429, "err_obj", h) : h \in RetryAfterHeaders }
    \cup { HttpResponse(401, "err_obj", AbsentHeader),
           HttpResponse(402, "err_str", AbsentHeader),
           HttpResponse(500, "not_json", AbsentHeader),
           HttpResponse(404, "err_obj", AbsentHeader),
           HttpResponse(400, "empty", AbsentHeader),
           TransportFailure }

(***************************************************************************)
(* The failover loop (_call_openrouter).  HandleResponse is the body of    *)
(* the loop after request_json has returned or raised: which error, if     *)
(* any, is written on the credential, what last_error becomes, and how     *)
(* the iteration ends: "return" (the text), "continue", "break", "notify"  *)
(* (the 401/402 notification, then continue) or "raise".                   *)
(***************************************************************************)
Outcome(step, write, code, message, cooldown, disable, last_error, text, exc) ==
    [ step |-> step, write |-> write, code |-> code, message |-> message,
      cooldown |-> cooldown, disable |-> disable, last_error |-> last_error,
      text |-> text, exc |-> exc ]

HandleResponse(resp) ==
    LET status == resp.status
        data == JsonLoads(resp.body)
        content == CompletionContent(data)
        error_message == ErrorMessage(resp.body)
        retry == RetryAfterCooldown(resp.retry_after)
        missing == Lit("OpenRouter response missing completion content.", 47)
    IN  IF resp.kind = "exception"
        THEN \* lines 378-387
             Outcome("continue", TRUE, 0, Lit("OpenRouter request failed", 25),
                     DEFAULT_SERVER_ERROR_COOLDOWN_SECONDS, FALSE,
                     Lit("OpenRouter request failed. Please try again.", 44), NoneMsg, "none")
        ELSE IF status = 200 /\ TruthyData(data)
        THEN \* lines 389-395
             IF content.raised = "none"
             THEN Outcome("return", FALSE, NoneVal, NoneMsg, NoneVal, FALSE,
                          NoneMsg, content.value, "none")
             ELSE Outcome("continue", TRUE, status, missing,
                          DEFAULT_SERVER_ERROR_COOLDOWN_SECONDS, FALSE, missing, NoneMsg, "none")
        ELSE IF status = 429
        THEN \* lines 407-417
             IF retry.raised # "none"
             THEN Outcome("raise", FALSE, NoneVal, NoneMsg, NoneVal, FALSE,
                          NoneMsg, NoneMsg, retry.raised)
             ELSE Outcome("continue", TRUE, status, error_message, retry.value, FALSE,
                          Lit("AI rate limit reached. Retrying with another key.", 49),
                          NoneMsg, "none")
        ELSE IF status \in { 401, 402 }
        THEN \* lines 419-430
             Outcome("notify", TRUE, status, error_message, NoneVal, TRUE,
                     Lit("AI key disabled due to authorization or credit error.", 53),
                     NoneMsg, "none")
        ELSE IF status >= 500
        THEN \* lines 432-435
             Outcome("continue", TRUE, status, error_message,
                     DEFAULT_SERVER_ERROR_COOLDOWN_SECONDS, FALSE,
                     Lit("OpenRouter server error. Retrying with another key.", 51),
                     NoneMsg, "none")
        ELSE \* lines 437-439
             Outcome("break", TRUE, status, error_message,
                     DEFAULT_RATE_LIMIT_COOLDOWN_SECONDS, FALSE, error_message, NoneMsg, "none")

\* _log_to_ai_channel and its caller, lines 422-429: no guild in the cache or no
\* log channel (nothing is sent), the embed sent, discord.Forbidden (caught,
\* line 347), or another discord.HTTPException of channel.send (not caught)
NotifyOutcomes == { "no_channel", "sent", "forbidden", "http_error" }

Dispatchers == { 1, 2 }

IdleDispatch ==
    [ pc |-> "idle", candidates |-> << >>, idx |-> 0, last_error |-> NoneMsg,
      resp |-> NoResponse, result_text |-> NoneMsg, result_error |-> NoneMsg,
      raised |-> "none", attempts |-> << >>, store0 |-> << >> ]

\* one entry of a dispatch's attempts history
NewAttempt(idx, name) ==
    [ idx |-> idx, key |-> name, decrypt |-> "pending", reserved_at |-> NoneVal,
      resp |-> NoResponse, step |-> "pending", wrote_at |-> NoneVal,
      notify |-> "none" ]

Cand(dr) == dr.candidates[dr.idx]

\* `return text, error`
Return(dr, text, error) ==
    [ dr EXCEPT !.pc = "returned", !.result_text = text, !.result_error = error ]

\* an exception leaves _call_openrouter
Raise(dr, exc) == [ dr EXCEPT !.pc = "raised", !.raised = exc ]

\* the end of one iteration of `for candidate in candidates[:MAX_KEY_ATTEMPTS]`:
\* the next candidate of the slice, or line 441 once the slice is used up
Continue(dr) ==
    IF dr.idx < Min(Len(dr.candidates), MAX_KEY_ATTEMPTS)
    THEN [ dr EXCEPT !.pc = "decrypt", !.idx = dr.idx + 1, !.resp = NoResponse ]
    ELSE Return([ dr EXCEPT !.resp = NoResponse ], NoneMsg, dr.last_error)

SetAttempt(dr, field, value) ==
    [ dr EXCEPT !.attempts[Len(dr.attempts)][field] = value ]

\* lines 350-355
SelectKeyCandidates(d) ==
    /\ d \in DOMAIN disp
    /\ disp[d].pc = "idle"
    /\ LET cands == select_key_candidates(keys, now)
           dr == [ disp[d] EXCEPT !.candidates = cands, !.store0 = keys ]
       IN  disp' = [ disp EXCEPT ![d] =
                IF cands = << >>
                THEN Return(dr, NoneMsg,
                        Lit("No available AI keys. Ask an admin to add or enable keys.", 57))
                ELSE [ dr EXCEPT !.pc = "decrypt", !.idx = 1,
                                 !.last_error = Lit("OpenRouter request failed.", 26) ] ]
    /\ UNCHANGED << now, secret_env, keys, upstream, decrypted, notified, ticks >>
    /\ UNCHANGED << gateVars, requests, evald, chatVars >>

\* lines 357-364: decrypt_api_key and the two except clauses
Decrypt(d) ==
    /\ d \in DOMAIN disp
    /\ disp[d].pc = "decrypt"
    /\ LET dr == disp[d]
           doc == Cand(dr).doc
           r == decrypt_api_key(doc.encrypted_api_key, secret_env)
           started == [ dr EXCEPT !.attempts = Append(@, NewAttempt(dr.idx, doc.name)) ]
       IN  /\ decrypted' = Append(decrypted, [ d |-> d, key |-> doc.name ])
           /\ disp' = [ disp EXCEPT ![d] =
                IF r.raised = "none"
                THEN SetAttempt([ started EXCEPT !.pc = "reserve" ], "decrypt", "ok")
                ELSE IF IsValueError(r.raised)
                THEN SetAttempt(SetAttempt(Return(started, NoneMsg, r.msg),
                                           "decrypt", r.raised), "step", "abort")
                ELSE SetAttempt([ started EXCEPT !.pc = "decrypt_failed" ],
                                "decrypt", r.raised) ]
    /\ UNCHANGED << now, secret_env, keys, upstream, notified, ticks >>
    /\ UNCHANGED << gateVars, requests, evald, chatVars >>

\* lines 365-367
DecryptFailed(d) ==
    /\ d \in DOMAIN disp
    /\ disp[d].pc = "decrypt_failed"
    /\ LET dr == disp[d]
           doc == Cand(dr).doc
       IN  /\ keys' = set_key_error(keys, doc, 0, Lit("Key decryption failed", 21),
                                    NoneVal, TRUE, now)
           /\ disp' = [ disp EXCEPT ![d] =
                Continue(SetAttempt(SetAttempt(
                    [ dr EXCEPT !.last_error = Lit("AI key decryption failed.", 25) ],
                    "wrote_at", now), "step", "continue")) ]
    /\ UNCHANGED << now, secret_env, upstream, decrypted, notified, ticks >>
    /\ UNCHANGED << gateVars, requests, evald, chatVars >>

Reserve_NotAwaited(d) ==
    /\ d \in DOMAIN disp
    /\ disp[d].pc = "reserve"
    /\ LET dr == disp[d]
           doc == Cand(dr).doc
       IN  /\ keys' = update_key_usage(keys, doc, Cand(dr), now)
           /\ upstream' = Append(upstream, [ d |-> d, key |-> doc.name, at |-> now ])
           /\ disp' = [ disp EXCEPT ![d] =
                IF dr.idx < Min(Len(dr.candidates), MAX_KEY_ATTEMPTS)
                THEN Continue(SetAttempt(dr, "reserved_at", now))
                ELSE SetAttempt([ dr EXCEPT !.pc = "calling" ], "reserved_at", now) ]
    /\ UNCHANGED << now, secret_env, decrypted, notified, ticks >>
    /\ UNCHANGED << gateVars, requests, evald, chatVars >>

\* lines 369-377: the reservation is written, then the request is sent
Reserve(d) ==
    /\ d \in DOMAIN disp
    /\ disp[d].pc = "reserve"
    /\ LET dr == disp[d]
           doc == Cand(dr).doc
       IN  /\ keys' = update_key_usage(keys, doc, Cand(dr), now)
           /\ upstream' = Append(upstream, [ d |-> d, key |-> doc.name, at |-> now ])
           /\ disp' = [ disp EXCEPT ![d] =
                SetAttempt([ dr EXCEPT !.pc = "calling" ], "reserved_at", now) ]
    /\ UNCHANGED << now, secret_env, decrypted, notified, ticks >>
    /\ UNCHANGED << gateVars, requests, evald, chatVars >>

\* request_json returns (status, data, text, headers) or raises
Respond(d) ==
    /\ d \in DOMAIN disp
    /\ disp[d].pc = "calling"
    /\ \E r \in Responses :
          disp' = [ disp EXCEPT ![d] =
                SetAttempt([ disp[d] EXCEPT !.pc = "handle", !.resp = r ], "resp", r) ]
    /\ UNCHANGED << now, secret_env, keys, upstream, decrypted, notified, ticks >>
    /\ UNCHANGED << gateVars, requests, evald, chatVars >>

\* lines 378-439: the outcome's write on the credential and the end of the iteration
Handle(d) ==
    /\ d \in DOMAIN disp
    /\ disp[d].pc = "handle"
    /\ LET dr == disp[d]
           doc == Cand(dr).doc
           o == HandleResponse(dr.resp)
           noted == SetAttempt(SetAttempt(
                        [ dr EXCEPT !.last_error =
                            IF o.step \in { "return", "raise" } THEN @ ELSE o.last_error ],
                        "step", o.step),
                        "wrote_at", IF o.write THEN now ELSE NoneVal)
       IN  /\ keys' = IF o.write
                      THEN set_key_error(keys, doc, o.code, o.message, o.cooldown,
                                         o.disable, now)
                      ELSE keys
           /\ disp' = [ disp EXCEPT ![d] =
                CASE o.step = "return"   -> Return(noted, o.text, NoneMsg)
                  [] o.step = "continue" -> Continue(noted)
                  [] o.step = "break"    -> Return(noted, NoneMsg, noted.last_error)
                  [] o.step = "notify"   -> [ noted EXCEPT !.pc = "notify" ]
                  [] o.step = "raise"    -> Raise(noted, o.exc) ]
    /\ UNCHANGED << now, secret_env, upstream, decrypted, notified, ticks >>
    /\ UNCHANGED << gateVars, requests, evald, chatVars >>

\* lines 422-430: the operator notification of a 401/402, then `continue`
Notify(d) ==
    /\ d \in DOMAIN disp
    /\ disp[d].pc = "notify"
    /\ \E n \in NotifyOutcomes :
          LET dr == SetAttempt(disp[d], "notify", n)
          IN  /\ notified' = Append(notified, [ d |-> d, key |-> Cand(dr).doc.name,
                                                outcome |-> n ])
              /\ disp' = [ disp EXCEPT ![d] =
                    IF n = "http_error"
                    THEN Raise(dr, "discord.HTTPException")
                    ELSE Continue(dr) ]
    /\ UNCHANGED << now, secret_env, keys, upstream, decrypted, ticks >>
    /\ UNCHANGED << gateVars, requests, evald, chatVars >>

\* the clock advances while an upstream call is in flight
TickSteps == { 2 }

Tick ==
    /\ ticks < MaxTicks
    /\ \E d \in DOMAIN disp : disp[d].pc = "calling"
    /\ \E delta \in TickSteps : now' = now + delta
    /\ ticks' = ticks + 1
    /\ UNCHANGED << secret_env, keys, disp, upstream, decrypted, notified >>
    /\ UNCHANGED << gateVars, requests, evald, chatVars >>

(***************************************************************************)
(* The credential pools a dispatch starts from: n keys added by            *)
(* ai_admin_keys_add 30 seconds ago, of which at most one is special: the  *)
(* first or second has a corrupt stored payload, or the first was disabled *)
(* by an admin, or the first was added 130 seconds ago, used 100 seconds   *)
(* ago and answered 500 (its cooldown has run out, its error fields are    *)
(* stale).                                                                 *)
(***************************************************************************)
SpecialKinds == (PayloadKinds \ { "valid" }) \cup { "stale", "disabled" }

StaleKeyDoc(name, t) ==
    LET added == NewKeyDoc(name, "valid", t - 130)
        used == update_key_usage((name :> added), added,
                                 build_key_candidate(added, t - 100), t - 100)
    IN  set_key_error(used, added, 500, Slice(BodyText("not_json"), MAX_STATUS_TEXT),
                      DEFAULT_SERVER_ERROR_COOLDOWN_SECONDS, FALSE, t - 99)[name]

SpecialKeyDoc(name, kind, t) ==
    CASE kind = "stale"    -> StaleKeyDoc(name, t)
      [] kind = "disabled" -> [ NewKeyDoc(name, "valid", t - 30) EXCEPT
                                    !.enabled = FALSE, !.updated_at = t - 10 ]
      [] OTHER             -> NewKeyDoc(name, kind, t - 30)

Pool(n, s, kind, t) ==
    [ k \in 1..n |-> IF k = s THEN SpecialKeyDoc(k, kind, t)
                     ELSE NewKeyDoc(k, "valid", t - 30) ]

Pools ==
    { Pool(c[1], c[2], c[3], Now0) :
        c \in { x \in (0..NumKeys) \X (0..2) \X SpecialKinds :
                    x[2] <= 1 \/ x[3] \in PayloadKinds } }

\* no scheduler function applied yet
NoEval == [ op |-> "none" ]

\* no request has run: AIChat.__init__ (lines 80-83) and empty stores
NoChat ==
    /\ mono = Mono0
    /\ user_cooldowns = << >>
    /\ channel_cooldowns = << >>
    /\ sessions = << >>
    /\ settings = << >>
    /\ chat = << >>

NoGate ==
    /\ requests = << >>
    /\ evald = NoEval
    /\ guild_inflight = << >>
    /\ guild_locks = << >>
    /\ gate = << >>
    /\ ceiling = 1
    /\ acq_log = << >>
    /\ rel_calls = << >>

Init ==
    /\ now = Now0
    /\ ticks = 0
    /\ secret_env \in BOOLEAN
    /\ keys \in Pools
    /\ disp = (1 :> IdleDispatch)
    /\ upstream = << >>
    /\ decrypted = << >>
    /\ notified = << >>
    /\ NoGate
    /\ NoChat

Next ==
    \/ \E d \in Dispatchers : SelectKeyCandidates(d)
    \/ \E d \in Dispatchers : Decrypt(d)
    \/ \E d \in Dispatchers : DecryptFailed(d)
    \/ \E d \in Dispatchers : Reserve(d)
    \/ \E d \in Dispatchers : Respond(d)
    \/ \E d \in Dispatchers : Handle(d)
    \/ \E d \in Dispatchers : Notify(d)
    \/ Tick

Spec == Init /\ [][Next]_vars

(***************************************************************************)
(* The concurrency gate.  NumTasks tasks call _acquire_guild_slot and      *)
(* _release_guild_slot, MaxCalls calls in all, for any guild and in any    *)
(* order; every caller passes the same ceiling.  The statements of a call  *)
(* are separate steps, so the calls interleave at every statement and only *)
(* the guild's lock serializes them.                                       *)
(***************************************************************************)
Tasks == 1..NumTasks

Guilds == 1..NumGuilds

NoTask == 0

IdleTask == [ pc |-> "idle", guild |-> 0, inflight |-> 0 ]

CallsStarted ==
    LET RECURSIVE Sum(_)
        Sum(g) == IF g = 0 THEN 0 ELSE acq_log[g].started + rel_calls[g] + Sum(g - 1)
    IN  Sum(NumGuilds)

\* how many acquire calls for guild g are in progress
AcquiresOpen(g) ==
    Cardinality({ t \in Tasks : gate[t].guild = g
                                /\ gate[t].pc \in { "acq_enter", "acq_read", "acq_decide" } })

\* _get_lock: the guild's lock, created unlocked on first use
get_lock(locks, g) == IF g \in DOMAIN locks THEN locks ELSE locks @@ (g :> NoTask)

lock_free_NoExclusion(locks, g) == TRUE

\* `async with lock`: a task enters only while no task holds the lock
lock_free(locks, g) == locks[g] = NoTask

\* self.guild_inflight.get(guild_id, 0)
inflight_get(inflight, g) == IF g \in DOMAIN inflight THEN inflight[g] ELSE 0

\* self.guild_inflight[guild_id] = value
inflight_set(inflight, g, value) ==
    [ h \in DOMAIN inflight \cup { g } |-> IF h = g THEN value ELSE inflight[h] ]

\* self.guild_inflight.pop(guild_id, None)
inflight_pop(inflight, g) == [ h \in DOMAIN inflight \ { g } |-> inflight[h] ]

\* line 210: _acquire_guild_slot is called and fetches the lock
AcquireCall(t, g) ==
    /\ gate[t].pc = "idle"
    /\ CallsStarted < MaxCalls
    /\ guild_locks' = get_lock(guild_locks, g)
    /\ gate' = [ gate EXCEPT ![t] = [ pc |-> "acq_enter", guild |-> g, inflight |-> 0 ] ]
    /\ acq_log' = [ acq_log EXCEPT ![g].started = @ + 1,
                                   ![g].overlap = Max(@, 1 + AcquiresOpen(g)) ]
    /\ UNCHANGED << guild_inflight, ceiling, rel_calls >>
    /\ UNCHANGED << dispatchVars, evald >>

\* line 211: the lock is taken
AcquireEnter(t) ==
    /\ gate[t].pc = "acq_enter"
    /\ lock_free(guild_locks, gate[t].guild)
    /\ guild_locks' = [ guild_locks EXCEPT ![gate[t].guild] = t ]
    /\ gate' = [ gate EXCEPT ![t].pc = "acq_read" ]
    /\ UNCHANGED << guild_inflight, ceiling, acq_log, rel_calls >>
    /\ UNCHANGED << dispatchVars, evald >>

\* line 212
AcquireRead(t) ==
    /\ gate[t].pc = "acq_read"
    /\ gate' = [ gate EXCEPT ![t].pc = "acq_decide",
                              ![t].inflight = inflight_get(guild_inflight, gate[t].guild) ]
    /\ UNCHANGED << guild_inflight, guild_locks, ceiling, acq_log, rel_calls >>
    /\ UNCHANGED << dispatchVars, evald >>

AcquireDecide_KeepsLock(t) ==
    /\ gate[t].pc = "acq_decide"
    /\ LET g == gate[t].guild
           ok == ~(gate[t].inflight >= ceiling)
       IN  /\ guild_inflight' = IF ok
                                THEN inflight_set(guild_inflight, g, gate[t].inflight + 1)
                                ELSE guild_inflight
           /\ guild_locks' = IF ok THEN guild_locks
                             ELSE [ guild_locks EXCEPT ![g] = NoTask ]
           /\ acq_log' = [ acq_log EXCEPT ![g].done = @ + 1,
                                          ![g].ok = IF ok THEN @ + 1 ELSE @ ]
    /\ gate' = [ gate EXCEPT ![t] = IdleTask ]
    /\ UNCHANGED << ceiling, rel_calls >>
    /\ UNCHANGED << dispatchVars, evald >>

\* lines 213-216: refuse or increment, leave the lock, return
AcquireDecide(t) ==
    /\ gate[t].pc = "acq_decide"
    /\ LET g == gate[t].guild
           ok == ~(gate[t].inflight >= ceiling)
       IN  /\ guild_inflight' = IF ok
                                THEN inflight_set(guild_inflight, g, gate[t].inflight + 1)
                                ELSE guild_inflight
           /\ guild_locks' = [ guild_locks EXCEPT ![g] = NoTask ]
           /\ acq_log' = [ acq_log EXCEPT ![g].done = @ + 1,
                                          ![g].ok = IF ok THEN @ + 1 ELSE @ ]
    /\ gate' = [ gate EXCEPT ![t] = IdleTask ]
    /\ UNCHANGED << ceiling, rel_calls >>
    /\ UNCHANGED << dispatchVars, evald >>

\* line 219: _release_guild_slot is called and fetches the lock
ReleaseCall(t, g) ==
    /\ gate[t].pc = "idle"
    /\ CallsStarted < MaxCalls
    /\ guild_locks' = get_lock(guild_locks, g)
    /\ gate' = [ gate EXCEPT ![t] = [ pc |-> "rel_enter", guild |-> g, inflight |-> 0 ] ]
    /\ rel_calls' = [ rel_calls EXCEPT ![g] = @ + 1 ]
    /\ UNCHANGED << guild_inflight, ceiling, acq_log >>
    /\ UNCHANGED << dispatchVars, evald >>

\* line 220
ReleaseEnter(t) ==
    /\ gate[t].pc = "rel_enter"
    /\ lock_free(guild_locks, gate[t].guild)
    /\ guild_locks' = [ guild_locks EXCEPT ![gate[t].guild] = t ]
    /\ gate' = [ gate EXCEPT ![t].pc = "rel_read" ]
    /\ UNCHANGED << guild_inflight, ceiling, acq_log, rel_calls >>
    /\ UNCHANGED << dispatchVars, evald >>

ReleaseRead_NoFloor(t) ==
    /\ gate[t].pc = "rel_read"
    /\ gate' = [ gate EXCEPT ![t].pc = "rel_write",
                              ![t].inflight =
                                  inflight_get(guild_inflight, gate[t].guild) - 1 ]
    /\ UNCHANGED << guild_inflight, guild_locks, ceiling, acq_log, rel_calls >>
    /\ UNCHANGED << dispatchVars, evald >>

\* line 221
ReleaseRead(t) ==
    /\ gate[t].pc = "rel_read"
    /\ gate' = [ gate EXCEPT ![t].pc = "rel_write",
                              ![t].inflight =
                                  Max(0, inflight_get(guild_inflight, gate[t].guild) - 1) ]
    /\ UNCHANGED << guild_inflight, guild_locks, ceiling, acq_log, rel_calls >>
    /\ UNCHANGED << dispatchVars, evald >>

\* lines 222-225: drop the entry at zero, store the count otherwise, leave the lock
ReleaseWrite(t) ==
    /\ gate[t].pc = "rel_write"
    /\ LET g == gate[t].guild
       IN  /\ guild_inflight' = IF gate[t].inflight = 0
                                THEN inflight_pop(guild_inflight, g)
                                ELSE inflight_set(guild_inflight, g, gate[t].inflight)
           /\ guild_locks' = [ guild_locks EXCEPT ![g] = NoTask ]
    /\ gate' = [ gate EXCEPT ![t] = IdleTask ]
    /\ UNCHANGED << ceiling, acq_log, rel_calls >>
    /\ UNCHANGED << dispatchVars, evald >>

NoDispatch ==
    /\ now = Now0
    /\ ticks = 0
    /\ secret_env = TRUE
    /\ keys = << >>
    /\ disp = << >>
    /\ upstream = << >>
    /\ decrypted = << >>
    /\ notified = << >>

\* after AIChat.__init__ (lines 80-83): no counter, no lock
InitGate ==
    /\ guild_inflight = << >>
    /\ guild_locks = << >>
    /\ gate = [ t \in Tasks |-> IdleTask ]
    /\ ceiling \in 1..MaxCeiling
    /\ acq_log = [ g \in Guilds |-> [ started |-> 0, done |-> 0, ok |-> 0, overlap |-> 0 ] ]
    /\ rel_calls = [ g \in Guilds |-> 0 ]
    /\ requests = << >>
    /\ evald = NoEval
    /\ NoDispatch
    /\ NoChat

\* the gate called directly: no _run_ai_request is in progress, and the gate
\* itself touches neither the cooldowns nor the stores
NextGate ==
    \/ \E t \in Tasks, g \in Guilds : AcquireCall(t, g) /\ UNCHANGED << requests, chatVars >>
    \/ \E t \in Tasks : AcquireEnter(t) /\ UNCHANGED << requests, chatVars >>
    \/ \E t \in Tasks : AcquireRead(t) /\ UNCHANGED << requests, chatVars >>
    \/ \E t \in Tasks : AcquireDecide(t) /\ UNCHANGED << requests, chatVars >>
    \/ \E t \in Tasks, g \in Guilds : ReleaseCall(t, g) /\ UNCHANGED << requests, chatVars >>
    \/ \E t \in Tasks : ReleaseEnter(t) /\ UNCHANGED << requests, chatVars >>
    \/ \E t \in Tasks : ReleaseRead(t) /\ UNCHANGED << requests, chatVars >>
    \/ \E t \in Tasks : ReleaseWrite(t) /\ UNCHANGED << requests, chatVars >>

SpecGate == InitGate /\ [][NextGate]_vars

(***************************************************************************)
(* Requests.  Each task runs _run_ai_request from the admission on (lines  *)
(* 643-716): it calls _acquire_guild_slot, returns when refused, and       *)
(* otherwise runs the body of the try statement, whose dispatch succeeds,  *)
(* returns an error or raises, and then the finally clause, which calls    *)
(* _release_guild_slot.  The calls of the gate are the steps above; a      *)
(* task may run one request after another.                                 *)
(***************************************************************************)
IdleRequest == [ phase |-> "idle", guild |-> 0, outcome |-> "none", released |-> 0 ]

\* how the body of the try statement ends: the answer sent (line 714), the error
\* sent and `return` (lines 692-697), or an exception (of _call_openrouter or of
\* any other await of the body)
BodyOutcomes == { "answered", "error", "raised" }

after_body_NoFinally(outcome) == IF outcome = "raised" THEN "done" ELSE "finally"

\* lines 653-716: whichever way the try body is left, the finally clause runs
after_body(outcome) == "finally"

\* the requests started so far (each starts with one _acquire_guild_slot call)
RequestsStarted ==
    LET RECURSIVE Sum(_)
        Sum(g) == IF g = 0 THEN 0 ELSE acq_log[g].started + Sum(g - 1)
    IN  Sum(NumGuilds)

\* line 644: the request calls _acquire_guild_slot (a request needs two gate
\* calls, so MaxCalls allows MaxCalls \div 2 requests)
RunAcquire(t, g) ==
    /\ requests[t].phase \in { "idle", "refused", "done" }
    /\ 2 * (RequestsStarted + 1) <= MaxCalls
    /\ AcquireCall(t, g)
    /\ requests' = [ requests EXCEPT ![t] =
            [ phase |-> "acquiring", guild |-> g, outcome |-> "none", released |-> 0 ] ]
    /\ UNCHANGED chatVars

\* lines 644-650: _acquire_guild_slot returns; refused requests answer "Busy" and return
RunAdmit(t) ==
    /\ requests[t].phase = "acquiring"
    /\ AcquireDecide(t)
    /\ requests' = [ requests EXCEPT ![t].phase =
            IF gate[t].inflight >= ceiling THEN "refused" ELSE "body" ]
    /\ UNCHANGED chatVars

\* lines 652-714: the body of the try statement
RunBody(t, outcome) ==
    /\ requests[t].phase = "body"
    /\ requests' = [ requests EXCEPT ![t].phase = after_body(outcome),
                                     ![t].outcome = outcome ]
    /\ UNCHANGED << dispatchVars, gateVars, evald, chatVars >>

\* lines 715-716: the finally clause calls _release_guild_slot
RunFinally(t) ==
    /\ requests[t].phase = "finally"
    /\ ReleaseCall(t, requests[t].guild)
    /\ requests' = [ requests EXCEPT ![t].phase = "releasing", ![t].released = @ + 1 ]
    /\ UNCHANGED chatVars

\* _release_guild_slot returns and the request is over
RunReleased(t) ==
    /\ requests[t].phase = "releasing"
    /\ ReleaseWrite(t)
    /\ requests' = [ requests EXCEPT ![t].phase = "done" ]
    /\ UNCHANGED chatVars

InitRequest ==
    /\ guild_inflight = << >>
    /\ guild_locks = << >>
    /\ gate = [ t \in Tasks |-> IdleTask ]
    /\ ceiling \in 1..MaxCeiling
    /\ acq_log = [ g \in Guilds |-> [ started |-> 0, done |-> 0, ok |-> 0, overlap |-> 0 ] ]
    /\ rel_calls = [ g \in Guilds |-> 0 ]
    /\ requests = [ t \in Tasks |-> IdleRequest ]
    /\ evald = NoEval
    /\ NoDispatch
    /\ NoChat

NextRequest ==
    \/ \E t \in Tasks, g \in Guilds : RunAcquire(t, g)
    \/ \E t \in Tasks : AcquireEnter(t) /\ UNCHANGED << requests, chatVars >>
    \/ \E t \in Tasks : AcquireRead(t) /\ UNCHANGED << requests, chatVars >>
    \/ \E t \in Tasks : RunAdmit(t)
    \/ \E t \in Tasks, o \in BodyOutcomes : RunBody(t, o)
    \/ \E t \in Tasks : RunFinally(t)
    \/ \E t \in Tasks : ReleaseEnter(t) /\ UNCHANGED << requests, chatVars >>
    \/ \E t \in Tasks : ReleaseRead(t) /\ UNCHANGED << requests, chatVars >>
    \/ \E t \in Tasks : RunReleased(t)

SpecRequest == InitRequest /\ [][NextRequest]_vars

(***************************************************************************)
(* Concurrent dispatches.  Two activations of _call_openrouter run on one  *)
(* guild's pool and interleave at every await: the listing of the keys,    *)
(* the reservation write, the upstream call and the error write are        *)
(* separate steps.  The pool holds one key: fresh, corrupt, or used        *)
(* 10 seconds ago up to one request short of its rpm_limit.                *)
(***************************************************************************)
\* the record of a key added 30 s before t and used `uses` times since, last 10 s before t
UsedKeyDoc(name, uses, t) ==
    [ NewKeyDoc(name, "valid", t - 30) EXCEPT
        !.minute_window_count = uses, !.day_count = uses,
        !.last_used_at = t - 10, !.updated_at = t - 10 ]

RacePools ==
    { (1 :> NewKeyDoc(1, "valid", Now0 - 30)),
      (1 :> NewKeyDoc(1, "auth_fail", Now0 - 30)),
      (1 :> UsedKeyDoc(1, RpmLimit - 1, Now0)) }

InitRace ==
    /\ now = Now0
    /\ ticks = 0
    /\ secret_env = TRUE
    /\ keys \in RacePools
    /\ disp = [ d \in Dispatchers |-> IdleDispatch ]
    /\ upstream = << >>
    /\ decrypted = << >>
    /\ notified = << >>
    /\ NoGate
    /\ NoChat

SpecRace == InitRace /\ [][Next]_vars

(***************************************************************************)
(* Concurrent dispatches with an administrator at work: between any two    *)
(* steps of the dispatches a key may be disabled or enabled by command.    *)
(***************************************************************************)
\* ai_admin_keys_disable, line 1139
ai_admin_keys_disable(k) ==
    /\ k \in DOMAIN keys
    /\ keys[k].enabled
    /\ keys' = update_ai_api_key(keys, k, [ enabled |-> FALSE, updated_at |-> now ])
    /\ UNCHANGED << now, secret_env, disp, upstream, decrypted, notified, ticks >>
    /\ UNCHANGED << gateVars, requests, evald, chatVars >>

\* ai_admin_keys_enable, line 1155
ai_admin_keys_enable(k) ==
    /\ k \in DOMAIN keys
    /\ ~ keys[k].enabled
    /\ keys' = update_ai_api_key(keys, k, [ enabled |-> TRUE, updated_at |-> now ])
    /\ UNCHANGED << now, secret_env, disp, upstream, decrypted, notified, ticks >>
    /\ UNCHANGED << gateVars, requests, evald, chatVars >>

NextAdmin ==
    \/ Next
    \/ \E k \in KeyNames : ai_admin_keys_disable(k)
    \/ \E k \in KeyNames : ai_admin_keys_enable(k)

SpecAdmin == InitRace /\ [][NextAdmin]_vars

(***************************************************************************)
(* Dispatches one at a time: when _call_openrouter has returned or raised, *)
(* the next request of the guild calls it again on the store as the last   *)
(* one left it.  The pool holds a key one request short of its rpm_limit,  *)
(* a key one request short of its rpd_limit, or both, or the latter and a  *)
(* fresh key whose payload does not decrypt.                               *)
(***************************************************************************)
SerialPools ==
    LET minute_short == UsedKeyDoc(1, RpmLimit - 1, Now0)
        day_short(name) == [ UsedKeyDoc(name, 0, Now0) EXCEPT !.day_count = RpdLimit - 1 ]
    IN  { (1 :> minute_short), (1 :> day_short(1)),
          (1 :> minute_short) @@ (2 :> day_short(2)),
          (1 :> day_short(1)) @@ (2 :> NewKeyDoc(2, "auth_fail", Now0 - 30)) }

\* the next call of _call_openrouter, after the last one has ended
CallAgain(d) ==
    /\ d \in DOMAIN disp
    /\ disp[d].pc \in { "returned", "raised" }
    /\ \A e \in DOMAIN disp : disp[e].pc \in { "idle", "returned", "raised" }
    /\ disp' = [ disp EXCEPT ![d] = IdleDispatch ]
    /\ UNCHANGED << now, secret_env, keys, upstream, decrypted, notified, ticks >>
    /\ UNCHANGED << gateVars, requests, evald, chatVars >>

InitSerial ==
    /\ now = Now0
    /\ ticks = 0
    /\ secret_env = TRUE
    /\ keys \in SerialPools
    /\ disp = (1 :> IdleDispatch)
    /\ upstream = << >>
    /\ decrypted = << >>
    /\ notified = << >>
    /\ NoGate
    /\ NoChat

NextSerial ==
    \/ Next
    \/ \E d \in Dispatchers : CallAgain(d)

SpecSerial == InitSerial /\ [][NextSerial]_vars

(***************************************************************************)
(* The dispatch in an adverse environment: the keys were added 59 seconds  *)
(* ago, so that their minute windows run out while an upstream call is in  *)
(* flight, and a write to the credential store may fail.  The store is not *)
(* among the sources; a failed update_ai_api_key reaches its caller as an  *)
(* exception, which neither _update_key_usage nor _set_key_error nor       *)
(* _call_openrouter catches (lines 304, 339, 365-437).                     *)
(***************************************************************************)
AgingPools ==
    { [ k \in 1..n |-> NewKeyDoc(k, IF k = s THEN "auth_fail" ELSE "valid", Now0 - 59) ] :
        n \in 2..MAX_KEY_ATTEMPTS, s \in 0..1 }

\* the write of _update_key_usage or of _set_key_error fails
StoreFails(d) ==
    /\ d \in DOMAIN disp
    /\ \/ disp[d].pc \in { "reserve", "decrypt_failed" }
       \/ disp[d].pc = "handle" /\ HandleResponse(disp[d].resp).write
    /\ disp' = [ disp EXCEPT ![d] = Raise(disp[d], "StoreError") ]
    /\ UNCHANGED << now, secret_env, keys, upstream, decrypted, notified, ticks >>
    /\ UNCHANGED << gateVars, requests, evald, chatVars >>

InitAdverse ==
    /\ now = Now0
    /\ ticks = 0
    /\ secret_env = TRUE
    /\ keys \in AgingPools
    /\ disp = (1 :> IdleDispatch)
    /\ upstream = << >>
    /\ decrypted = << >>
    /\ notified = << >>
    /\ NoGate
    /\ NoChat

NextAdverse ==
    \/ Next
    \/ \E d \in Dispatchers : StoreFails(d)

SpecAdverse == InitAdverse /\ [][NextAdverse]_vars

(***************************************************************************)
(* The scheduler functions on their own: _window_state,                    *)
(* _build_key_candidate and _select_key_candidates applied to stored       *)
(* documents of every shape.  A single document varies in its enabled      *)
(* flag, cooldown, limits and windows; a pool of several documents varies  *)
(* in what the ranking reads (counts, last_used_at, eligibility).  A       *)
(* behaviour applies one function once and records the application in      *)
(* evald; no application writes the store.                                 *)
(***************************************************************************)
\* limits and counts of a single document range over 0..MaxLimit
MaxLimit == 2

\* pools handed to _select_key_candidates hold 2..PoolKeys documents
PoolKeys == 3

\* how far a limit is raised
MaxRaise == 2

CooldownValues == { NoneVal, Now0 - 1, Now0, Now0 + 1 }

\* (start, count) of a window: never written, or started at one of the times
MinuteWindows ==
    { << NoneVal, NoneVal >> } \cup ({ Now0 - 60, Now0 - 59 } \X (0..MaxLimit))

DayWindows ==
    { << NoneVal, NoneVal >> } \cup ({ Now0 - 86400, Now0 - 59 } \X (0..MaxLimit))

EvalDoc(enabled, cooldown, rpm, rpd, minute, day) ==
    [ NewKeyDoc(1, "valid", Now0 - 59) EXCEPT
        !.enabled = enabled, !.cooldown_until = cooldown,
        !.rpm_limit = rpm, !.rpd_limit = rpd,
        !.minute_window_started_at = minute[1], !.minute_window_count = minute[2],
        !.day_started_at = day[1], !.day_count = day[2] ]

EvalDocs ==
    { EvalDoc(e, c, r, d, m, y) :
        e \in BOOLEAN, c \in CooldownValues, r \in 0..MaxLimit, d \in 0..MaxLimit,
        m \in MinuteWindows, y \in DayWindows }

\* a document as the ranking sees it: used (minute, day) times in the running
\* windows, last at time last_used_at; or disabled; or in cooldown
RankDoc(kind, minute_count, day_count, last_used_at) ==
    [ NewKeyDoc(1, "valid", Now0 - 59) EXCEPT
        !.enabled = (kind # "disabled"),
        !.cooldown_until = IF kind = "cooling" THEN Now0 + 5 ELSE NoneVal,
        !.minute_window_count = minute_count, !.day_count = day_count,
        !.last_used_at = last_used_at ]

RankDocs ==
    { RankDoc("ok", c[1], c[2], u) :
        c \in { << 0, 0 >>, << 1, 0 >>, << 0, 1 >> }, u \in { NoneVal, Now0 - 50, Now0 - 20 } }
    \cup { RankDoc("disabled", 0, 0, NoneVal), RankDoc("cooling", 0, 0, Now0 - 20) }

\* the store holding the documents of seq under the names 1..Len(seq)
StoreOf(seq) == [ k \in DOMAIN seq |-> [ seq[k] EXCEPT !.name = k ] ]

RankPools ==
    UNION { { StoreOf(seq) : seq \in [ 1..n -> RankDocs ] } : n \in 2..PoolKeys }

EvalPools == { StoreOf(<< doc >>) : doc \in EvalDocs } \cup RankPools

\* _build_key_candidate(doc, now)
Evaluate(k) ==
    /\ k \in DOMAIN keys
    /\ evald = NoEval
    /\ evald' = [ op |-> "evaluate", doc |-> keys[k], t |-> now,
                  out |-> build_key_candidate(keys[k], now) ]
    /\ UNCHANGED << dispatchVars, gateVars, requests, chatVars >>

\* _window_state on the minute window (60 s) or the day window (86400 s) of a document
Advance(k, window_seconds) ==
    /\ k \in DOMAIN keys
    /\ evald = NoEval
    /\ LET minute == (window_seconds = MINUTE_WINDOW_SECONDS)
           start == IF minute THEN keys[k].minute_window_started_at
                    ELSE keys[k].day_started_at
           count == IF minute THEN keys[k].minute_window_count ELSE keys[k].day_count
       IN  evald' = [ op |-> "advance", start |-> start, count |-> count,
                      duration |-> window_seconds, t |-> now,
                      out |-> window_state(start, count, window_seconds, now) ]
    /\ UNCHANGED << dispatchVars, gateVars, requests, chatVars >>

\* _select_key_candidates(guild_id)
Select ==
    /\ evald = NoEval
    /\ evald' = [ op |-> "select", store |-> keys, t |-> now,
                  out |-> select_key_candidates(keys, now) ]
    /\ UNCHANGED << dispatchVars, gateVars, requests, chatVars >>

\* _build_key_candidate on a document and on the same document with its
\* limits raised by dr and dd
RaiseLimits(k, dr, dd) ==
    /\ k \in DOMAIN keys
    /\ evald = NoEval
    /\ LET raised == [ keys[k] EXCEPT !.rpm_limit = @ + dr, !.rpd_limit = @ + dd ]
       IN  evald' = [ op |-> "raise", doc |-> keys[k], raised |-> raised, t |-> now,
                      out |-> build_key_candidate(keys[k], now),
                      out_raised |-> build_key_candidate(raised, now) ]
    /\ UNCHANGED << dispatchVars, gateVars, requests, chatVars >>

\* what the diagnostic fields of a stored document may hold: nothing, a use
\* without an error, a 401 written after a use, a 429 of a key not used since
Diagnostics ==
    { [ last_used_at |-> NoneVal, last_error_code |-> NoneVal,
        last_error |-> NoneMsg, last_error_at |-> NoneVal ],
      [ last_used_at |-> Now0 - 10, last_error_code |-> NoneVal,
        last_error |-> NoneMsg, last_error_at |-> NoneVal ],
      [ last_used_at |-> Now0 - 10, last_error_code |-> 401,
        last_error |-> Lit("User not found.", 15), last_error_at |-> Now0 - 9 ],
      [ last_used_at |-> NoneVal, last_error_code |-> 429,
        last_error |-> Lit("Rate limit exceeded", 19), last_error_at |-> Now0 - 1 ] }

\* _build_key_candidate on a document and on the same document with other
\* diagnostic fields
Diagnose(k, diag) ==
    /\ k \in DOMAIN keys
    /\ evald = NoEval
    /\ LET other == [ f \in DOMAIN keys[k] |->
                        IF f \in DOMAIN diag THEN diag[f] ELSE keys[k][f] ]
       IN  evald' = [ op |-> "diagnose", doc |-> keys[k], other |-> other, t |-> now,
                      out |-> build_key_candidate(keys[k], now),
                      out_other |-> build_key_candidate(other, now) ]
    /\ UNCHANGED << dispatchVars, gateVars, requests, chatVars >>

InitPure ==
    /\ now = Now0
    /\ ticks = 0
    /\ secret_env = TRUE
    /\ keys \in EvalPools
    /\ disp = << >>
    /\ upstream = << >>
    /\ decrypted = << >>
    /\ notified = << >>
    /\ NoGate
    /\ NoChat

NextPure ==
    \/ \E k \in KeyNames : Evaluate(k)
    \/ \E k \in KeyNames : Advance(k, MINUTE_WINDOW_SECONDS)
    \/ \E k \in KeyNames : Advance(k, DAY_WINDOW_SECONDS)
    \/ Select
    \/ \E k \in KeyNames, dr \in 0..MaxRaise, dd \in 0..MaxRaise : RaiseLimits(k, dr, dd)
    \/ \E k \in KeyNames, diag \in Diagnostics : Diagnose(k, diag)

SpecPure == InitPure /\ [][NextPure]_vars

(***************************************************************************)
(* Cooldowns (_cooldown_remaining, _check_cooldowns, _set_cooldowns).      *)
(* Monotonic times and remaining times are in tenths of a second, the      *)
(* cooldowns of a policy in whole seconds.  The message _check_cooldowns   *)
(* returns is the record [kind, seconds] of its wording and of the number  *)
(* it prints; None is NoRefusal.                                           *)
(***************************************************************************)
Users == 1..NumUsers

Channels == { 1 }

NoRefusal == [ kind |-> "none", seconds |-> NoneVal ]

\* dict.get(key): None when the key is absent
DictGet(dict, key) == IF key \in DOMAIN dict THEN dict[key] ELSE NoneVal

\* dict[key] = value
DictSet(dict, key, value) ==
    [ k \in DOMAIN dict \cup { key } |-> IF k = key THEN value ELSE dict[k] ]

\* lines 178-182
cooldown_remaining(last_ts, cooldown_seconds, t) ==
    IF last_ts = NoneVal THEN 0 ELSE Max(0, cooldown_seconds * 10 - (t - last_ts))

check_cooldowns_ChannelOnly(g, u, c, user_cooldown, channel_cooldown, t) ==
    LET channel_remaining ==
            cooldown_remaining(DictGet(channel_cooldowns, << g, c >>), channel_cooldown, t)
    IN  IF channel_remaining > 0
        THEN [ kind |-> "channel", seconds |-> IntOfFloat(channel_remaining) ]
        ELSE NoRefusal

\* lines 184-203; int(remaining) drops the fraction of a second
check_cooldowns(g, u, c, user_cooldown, channel_cooldown, t) ==
    LET user_remaining ==
            cooldown_remaining(DictGet(user_cooldowns, << g, u >>), user_cooldown, t)
        channel_remaining ==
            cooldown_remaining(DictGet(channel_cooldowns, << g, c >>), channel_cooldown, t)
    IN  IF user_remaining > 0
        THEN [ kind |-> "Cooldown active", seconds |-> IntOfFloat(user_remaining) ]
        ELSE IF channel_remaining > 0
        THEN [ kind |-> "Channel cooldown active", seconds |-> IntOfFloat(channel_remaining) ]
        ELSE NoRefusal

\* the stamps a cooldown dict may hold: none, or a commit up to MaxCooldown
\* seconds and a half before the clock's reading
Stamps == { NoneVal } \cup { Mono0 - 5 * h : h \in 0..(2 * MaxCooldown + 1) }

Cooldowns == 0..MaxCooldown

\* _check_cooldowns applied to the stamps of one actor and one channel
CheckCooldowns(g, u, c, user_cooldown, channel_cooldown) ==
    /\ evald = NoEval
    /\ evald' = [ op |-> "check", guild |-> g, user |-> u, channel |-> c,
                  user_cooldown |-> user_cooldown, channel_cooldown |-> channel_cooldown,
                  result |-> check_cooldowns(g, u, c, user_cooldown, channel_cooldown, mono) ]
    /\ UNCHANGED << dispatchVars, gateVars, requests, chatVars >>

InitCooldown ==
    /\ mono = Mono0
    /\ \E s \in Stamps :
          user_cooldowns = IF s = NoneVal THEN << >> ELSE (<< 1, 1 >> :> s)
    /\ \E s \in Stamps :
          channel_cooldowns = IF s = NoneVal THEN << >> ELSE (<< 1, 1 >> :> s)
    /\ sessions = << >>
    /\ settings = << >>
    /\ chat = << >>
    /\ NoDispatch
    /\ NoGate

NextCooldown ==
    \E g \in Guilds, u \in Users, c \in Channels, uc \in Cooldowns, cc \in Cooldowns :
        CheckCooldowns(g, u, c, uc, cc)

SpecCooldown == InitCooldown /\ [][NextCooldown]_vars

(***************************************************************************)
(* Session histories (_trim_messages).  A message is the record [role, ts] *)
(* of its role and of its place in the history it was stored in.           *)
(***************************************************************************)
Roles == { "user", "assistant" }

Reverse(s) == [ i \in 1..Len(s) |-> s[Len(s) + 1 - i] ]

UserTurns(s) == Cardinality({ i \in DOMAIN s : s[i].role = "user" })

trim_messages_StopsBeforeTurn(messages, max_turns) ==
    LET RECURSIVE Walk(_, _, _)
        Walk(i, user_turns, trimmed) ==
            IF i = 0
            THEN trimmed
            ELSE LET turns == IF messages[i].role = "user" THEN user_turns + 1
                                                          ELSE user_turns
                 IN  IF turns >= max_turns
                     THEN trimmed
                     ELSE Walk(i - 1, turns, Append(trimmed, messages[i]))
    IN  IF max_turns <= 0 THEN << >> ELSE Reverse(Walk(Len(messages), 0, << >>))

\* lines 442-453: walk from the most recent message, stop with the message that
\* brings the count of user turns to max_turns
trim_messages(messages, max_turns) ==
    LET RECURSIVE Walk(_, _, _)
        Walk(i, user_turns, trimmed) ==
            IF i = 0
            THEN trimmed
            ELSE LET turns == IF messages[i].role = "user" THEN user_turns + 1
                                                          ELSE user_turns
                 IN  IF turns >= max_turns
                     THEN Append(trimmed, messages[i])
                     ELSE Walk(i - 1, turns, Append(trimmed, messages[i]))
    IN  IF max_turns <= 0 THEN << >> ELSE Reverse(Walk(Len(messages), 0, << >>))

\* the histories of up to MaxMessages messages, in any order of roles
Histories ==
    UNION { { [ i \in 1..n |-> [ role |-> r[i], ts |-> i ] ] : r \in [ 1..n -> Roles ] }
            : n \in 0..MaxMessages }

\* _trim_messages applied to the stored history of a session
Trim(key, max_turns) ==
    /\ evald = NoEval
    /\ key \in DOMAIN sessions
    /\ evald' = [ op |-> "trim", messages |-> sessions[key], max_turns |-> max_turns,
                  result |-> trim_messages(sessions[key], max_turns) ]
    /\ UNCHANGED << dispatchVars, gateVars, requests, chatVars >>

InitTrim ==
    /\ mono = Mono0
    /\ user_cooldowns = << >>
    /\ channel_cooldowns = << >>
    /\ \E h \in Histories : sessions = (<< 1, 1, 1 >> :> h)
    /\ settings = << >>
    /\ chat = << >>
    /\ NoDispatch
    /\ NoGate

NextTrim == \E key \in DOMAIN sessions, n \in (0 - 1)..MaxTurns : Trim(key, n)

SpecTrim == InitTrim /\ [][NextTrim]_vars

(***************************************************************************)
(* Whole requests (_run_ai_request from line 598 on) against the cooldowns,*)
(* the gate and the session store.  The lock of the gate is held over no   *)
(* suspension, so it is always free when a request reaches it and taking   *)
(* it suspends nothing: a request runs from its checks through the         *)
(* admission and _set_cooldowns to the read of its session in one step,    *)
(* and its release in another.  The dispatch is its outcome; the policy of *)
(* the guild is fixed during a behaviour.                                  *)
(***************************************************************************)
\* the tasks that run whole requests
ChatTasks == { 1, 2 }

\* what lines 606-625 tell apart in a prompt
PromptKinds == { "ok", "empty", "too_long", "mass_mention" }

IdleChat ==
    [ pc |-> "idle", guild |-> 0, user |-> 0, channel |-> 0, prompt_ok |-> TRUE,
      use_session |-> TRUE, started_at |-> NoneVal, user_last |-> NoneVal,
      session_messages |-> << >>, messages |-> << >>,
      updated_messages |-> << >>, outcome |-> "none", stored |-> 0 ]

acquire_guild_slot_CountsRefusal(inflight, g, max_concurrent) ==
    << inflight_get(inflight, g) < max_concurrent,
       inflight_set(inflight, g, inflight_get(inflight, g) + 1) >>

\* lines 209-216, under the guild's lock: << admitted, guild_inflight afterwards >>
acquire_guild_slot(inflight, g, max_concurrent) ==
    IF inflight_get(inflight, g) >= max_concurrent
    THEN << FALSE, inflight >>
    ELSE << TRUE, inflight_set(inflight, g, inflight_get(inflight, g) + 1) >>

\* lines 218-225, under the guild's lock: guild_inflight afterwards
release_guild_slot(inflight, g) ==
    LET count == Max(0, inflight_get(inflight, g) - 1)
    IN  IF count = 0 THEN inflight_pop(inflight, g) ELSE inflight_set(inflight, g, count)

set_cooldowns_ActorOnly(g, u, c, t) ==
    << DictSet(user_cooldowns, << g, u >>, t), channel_cooldowns >>

\* lines 204-207: << user_cooldowns, channel_cooldowns >> afterwards
set_cooldowns(g, u, c, t) ==
    << DictSet(user_cooldowns, << g, u >>, t), DictSet(channel_cooldowns, << g, c >>, t) >>

\* lines 552-561
build_prompt(session_messages, t) ==
    << [ role |-> "system", ts |-> NoneVal ] >> \o session_messages
        \o << [ role |-> "user", ts |-> t ] >>

\* lines 606-658: the checks of the prompt, the cooldown check, the admission
\* and the commit of the cooldowns, up to the first suspension (a request that
\* reaches the gate may call it twice, and MaxCalls bounds the calls)
ChatStart(t, g, u, c, p, use_session) ==
    /\ chat[t].pc \in { "idle", "rejected", "cooldown", "busy", "done" }
    /\ CallsStarted + 2 <= MaxCalls
    /\ LET policy == settings[g]
           refusal == check_cooldowns(g, u, c, policy.user_cooldown_seconds,
                                      policy.channel_cooldown_seconds, mono)
           slot == acquire_guild_slot(guild_inflight, g, ceiling)
           passed == p = "ok" /\ refusal = NoRefusal
           stamps == set_cooldowns(g, u, c, mono)
           start == [ IdleChat EXCEPT !.guild = g, !.user = u, !.channel = c,
                                      !.prompt_ok = (p = "ok"),
                                      !.use_session = use_session,
                                      !.started_at = mono,
                                      !.user_last = DictGet(user_cooldowns, << g, u >>) ]
       IN  /\ chat' = [ chat EXCEPT ![t] =
                  IF p # "ok" THEN [ start EXCEPT !.pc = "rejected" ]
                  ELSE IF refusal # NoRefusal THEN [ start EXCEPT !.pc = "cooldown" ]
                  ELSE IF ~slot[1] THEN [ start EXCEPT !.pc = "busy" ]
                  ELSE [ start EXCEPT !.pc = "loading" ] ]
           /\ guild_locks' = IF passed THEN get_lock(guild_locks, g) ELSE guild_locks
           /\ guild_inflight' = IF passed THEN slot[2] ELSE guild_inflight
           /\ acq_log' = IF passed
                         THEN [ acq_log EXCEPT ![g].started = @ + 1, ![g].done = @ + 1,
                                               ![g].ok = IF slot[1] THEN @ + 1 ELSE @,
                                               ![g].overlap = Max(@, 1) ]
                         ELSE acq_log
           /\ user_cooldowns' = IF passed /\ slot[1] THEN stamps[1] ELSE user_cooldowns
           /\ channel_cooldowns' = IF passed /\ slot[1] THEN stamps[2] ELSE channel_cooldowns
    /\ UNCHANGED << gate, ceiling, rel_calls, mono, sessions, settings >>
    /\ UNCHANGED << dispatchVars, requests, evald >>

\* lines 657-691: the session is read and trimmed, the prompt built, and the
\* dispatch starts
ChatLoad(t) ==
    /\ chat[t].pc = "loading"
    /\ LET key == << chat[t].guild, chat[t].user, chat[t].channel >>
           loaded == IF chat[t].use_session /\ key \in DOMAIN sessions
                     THEN sessions[key] ELSE << >>
           session_messages == trim_messages(loaded, settings[chat[t].guild].session_max_turns)
       IN  chat' = [ chat EXCEPT ![t].pc = "dispatch",
                                 ![t].session_messages = session_messages,
                                 ![t].messages = build_prompt(session_messages, now) ]
    /\ UNCHANGED << dispatchVars, gateVars, requests, evald >>
    /\ UNCHANGED << mono, user_cooldowns, channel_cooldowns, sessions, settings >>

\* lines 691-703: _call_openrouter returns a text, returns an error or raises
ChatDispatch(t, outcome) ==
    /\ chat[t].pc = "dispatch"
    /\ LET exchange == << [ role |-> "user", ts |-> now ],
                          [ role |-> "assistant", ts |-> now ] >>
           updated == trim_messages(chat[t].session_messages \o exchange,
                                    settings[chat[t].guild].session_max_turns)
       IN  chat' = [ chat EXCEPT
                ![t].outcome = outcome,
                ![t].updated_messages = IF outcome = "answered" THEN updated ELSE << >>,
                ![t].pc = IF outcome = "answered" /\ chat[t].use_session
                          THEN "store" ELSE "finally" ]
    /\ UNCHANGED << dispatchVars, gateVars, requests, evald >>
    /\ UNCHANGED << mono, user_cooldowns, channel_cooldowns, sessions, settings >>

\* lines 704-714: the session is written (and the answer sent)
ChatStore(t) ==
    /\ chat[t].pc = "store"
    /\ sessions' = DictSet(sessions, << chat[t].guild, chat[t].user, chat[t].channel >>,
                           chat[t].updated_messages)
    /\ chat' = [ chat EXCEPT ![t].pc = "finally", ![t].stored = @ + 1 ]
    /\ UNCHANGED << dispatchVars, gateVars, requests, evald >>
    /\ UNCHANGED << mono, user_cooldowns, channel_cooldowns, settings >>

\* lines 715-716
ChatRelease(t) ==
    /\ chat[t].pc = "finally"
    /\ guild_locks' = get_lock(guild_locks, chat[t].guild)
    /\ guild_inflight' = release_guild_slot(guild_inflight, chat[t].guild)
    /\ rel_calls' = [ rel_calls EXCEPT ![chat[t].guild] = @ + 1 ]
    /\ chat' = [ chat EXCEPT ![t].pc = "done" ]
    /\ UNCHANGED << gate, ceiling, acq_log >>
    /\ UNCHANGED << dispatchVars, requests, evald >>
    /\ UNCHANGED << mono, user_cooldowns, channel_cooldowns, sessions, settings >>

\* how far the monotonic clock moves at once: half a second, or a cooldown
MonoSteps == { 5, 10 * MaxCooldown }

ChatTick(step) ==
    /\ ticks < MaxTicks
    /\ ticks' = ticks + 1
    /\ mono' = mono + step
    /\ UNCHANGED << now, secret_env, keys, disp, upstream, decrypted, notified >>
    /\ UNCHANGED << gateVars, requests, evald >>
    /\ UNCHANGED << user_cooldowns, channel_cooldowns, sessions, settings, chat >>

\* the policies of the guild: every cap on user turns without cooldowns, and
\* every pair of an absent or longest cooldown with a cap of one turn
ChatPolicies ==
    { [ user_cooldown_seconds |-> 0, channel_cooldown_seconds |-> 0,
        session_max_turns |-> turns ] : turns \in 0..MaxTurns }
    \cup { [ user_cooldown_seconds |-> uc, channel_cooldown_seconds |-> cc,
             session_max_turns |-> 1 ] : uc \in { 0, MaxCooldown }, cc \in { 0, MaxCooldown } }

InitChat ==
    /\ mono = Mono0
    /\ user_cooldowns = << >>
    /\ channel_cooldowns = << >>
    /\ sessions = << >>
    /\ \E policy \in ChatPolicies : settings = [ g \in Guilds |-> policy ]
    /\ chat = [ t \in ChatTasks |-> IdleChat ]
    /\ guild_inflight = << >>
    /\ guild_locks = << >>
    /\ gate = [ t \in Tasks |-> IdleTask ]
    /\ ceiling \in 1..MaxCeiling
    /\ acq_log = [ g \in Guilds |-> [ started |-> 0, done |-> 0, ok |-> 0, overlap |-> 0 ] ]
    /\ rel_calls = [ g \in Guilds |-> 0 ]
    /\ requests = << >>
    /\ evald = NoEval
    /\ NoDispatch

NextChat ==
    \/ \E t \in ChatTasks, g \in Guilds, u \in Users, c \in Channels,
          p \in PromptKinds, use_session \in BOOLEAN : ChatStart(t, g, u, c, p, use_session)
    \/ \E t \in ChatTasks : ChatLoad(t)
    \/ \E t \in ChatTasks, o \in BodyOutcomes : ChatDispatch(t, o)
    \/ \E t \in ChatTasks : ChatStore(t)
    \/ \E t \in ChatTasks : ChatRelease(t)
    \/ \E step \in MonoSteps : ChatTick(step)

SpecChat == InitChat /\ [][NextChat]_vars

(***************************************************************************)
(* Guild settings.  The policy store holds one document per guild, and a   *)
(* guild without a document has the empty one.  Of the keys of a document  *)
(* the two about models are followed, and guild_id stands for the rest.    *)
(* _get_guild_settings awaits the store twice, once to fetch and once to   *)
(* write what it repaired, and other coroutines run between the two.       *)
(***************************************************************************)
Models == { "model_0", "model_1", "model_2" }

\* database.models: the built-in default model and the allowlist holding it
AI_DEFAULT_MODEL_ID == "model_0"

AI_DEFAULT_MODEL_ALLOWLIST == << "model_0" >>

\* AIGuildSettings(guild_id=guild_id).to_dict()
SettingsDefaults(g) ==
    [ guild_id |-> g, default_model_id |-> AI_DEFAULT_MODEL_ID,
      model_allowlist |-> AI_DEFAULT_MODEL_ALLOWLIST ]

ModelKeys == { "default_model_id", "model_allowlist" }

\* x in list
InList(x, list) == \E i \in DOMAIN list : list[i] = x

\* db.upsert_ai_guild_settings: sets the fields of update in the guild's
\* document, creating it when there is none; the document that results
upsert_ai_guild_settings(doc, update) ==
    [ k \in DOMAIN doc \cup DOMAIN update |->
        IF k \in DOMAIN update THEN update[k] ELSE doc[k] ]

\* lines 141-166 of _get_guild_settings on a fetched document: the document
\* with its repairs and the update that carries them to the store
repair_settings(g, fetched) ==
    LET defaults == SettingsDefaults(g)
        missing == ModelKeys \ DOMAIN fetched
        doc == [ k \in DOMAIN fetched \cup missing |->
                   IF k \in missing THEN defaults[k] ELSE fetched[k] ]
        no_allowlist == doc.model_allowlist = << >>
        listed == IF no_allowlist THEN AI_DEFAULT_MODEL_ALLOWLIST
                  ELSE doc.model_allowlist
        unlisted == ~ InList(doc.default_model_id, listed)
        allowlist == IF unlisted THEN Append(listed, doc.default_model_id) ELSE listed
        written == missing \cup IF no_allowlist \/ unlisted
                                THEN { "model_allowlist" } ELSE { }
        healed == [ doc EXCEPT !.model_allowlist = allowlist ]
    IN  [ doc |-> healed, update |-> [ k \in written |-> healed[k] ] ]

\* a coroutine that has not called _get_guild_settings yet
IdleSettings ==
    [ pc |-> "idle", op |-> "none", guild |-> 0, model_id |-> AI_DEFAULT_MODEL_ID,
      update |-> << >>, settings |-> << >> ]

\* _get_guild_settings up to its second await: the fetch, the repairs, and
\* the return when there is nothing to write.  op is "read" for the callers
\* that only use the settings and "model_set" for ai_admin_model_set.
SettingsFetch(t, g, op, model_id) ==
    /\ chat[t].pc = "idle"
    /\ LET fetched == settings[g]
           repaired == repair_settings(g, fetched)
       IN  chat' = [ chat EXCEPT ![t] =
             IF fetched = << >>
             THEN [ pc |-> "upsert", op |-> op, guild |-> g, model_id |-> model_id,
                    update |-> SettingsDefaults(g), settings |-> << >> ]
             ELSE IF repaired.update # << >>
             THEN [ pc |-> "upsert", op |-> op, guild |-> g, model_id |-> model_id,
                    update |-> repaired.update, settings |-> << >> ]
             ELSE [ pc |-> "returned", op |-> op, guild |-> g, model_id |-> model_id,
                    update |-> << >>, settings |-> repaired.doc ] ]
    /\ UNCHANGED << mono, user_cooldowns, channel_cooldowns, sessions, settings >>
    /\ UNCHANGED << dispatchVars, gateVars, requests, evald >>

\* the second await of _get_guild_settings: the write of the defaults or of
\* the repairs, whose result is what the function returns
SettingsUpsert(t) ==
    /\ chat[t].pc = "upsert"
    /\ LET g == chat[t].guild
           stored == upsert_ai_guild_settings(settings[g], chat[t].update)
       IN  /\ settings' = [ settings EXCEPT ![g] = stored ]
           /\ chat' = [ chat EXCEPT ![t].pc = "returned", ![t].update = << >>,
                                    ![t].settings = stored ]
    /\ UNCHANGED << mono, user_cooldowns, channel_cooldowns, sessions >>
    /\ UNCHANGED << dispatchVars, gateVars, requests, evald >>

\* ai_admin_model_set after its read (lines 1317-1329): the new default and
\* the allowlist of the settings it read, with the model appended if absent
ModelSet(t) ==
    /\ chat[t].pc = "returned"
    /\ chat[t].op = "model_set"
    /\ LET g == chat[t].guild
           model_id == chat[t].model_id
           read == chat[t].settings.model_allowlist
           allowlist == IF InList(model_id, read) THEN read ELSE Append(read, model_id)
       IN  settings' = [ settings EXCEPT ![g] = upsert_ai_guild_settings(settings[g],
                           [ default_model_id |-> model_id, model_allowlist |-> allowlist ]) ]
    /\ chat' = [ chat EXCEPT ![t].pc = "done" ]
    /\ UNCHANGED << mono, user_cooldowns, channel_cooldowns, sessions >>
    /\ UNCHANGED << dispatchVars, gateVars, requests, evald >>

\* the documents a store may hold when the cog starts: none, or one written
\* by any earlier version, with or without the model keys
StoredAllowlists ==
    { << >> } \cup { << m >> : m \in Models }
              \cup { a \in Models \X Models : a[1] # a[2] }

StoredSettings ==
    { << >> }
    \cup { [ guild_id |-> g ] : g \in Guilds }
    \cup { [ guild_id |-> g, default_model_id |-> m ] : g \in Guilds, m \in Models }
    \cup { [ guild_id |-> g, model_allowlist |-> a ] : g \in Guilds, a \in StoredAllowlists }
    \cup { [ guild_id |-> g, default_model_id |-> m, model_allowlist |-> a ] :
             g \in Guilds, m \in Models, a \in StoredAllowlists }

InitSettings ==
    /\ mono = Mono0
    /\ user_cooldowns = << >>
    /\ channel_cooldowns = << >>
    /\ sessions = << >>
    /\ settings \in { s \in [ Guilds -> StoredSettings ] :
                        \A g \in Guilds : s[g] # << >> => s[g].guild_id = g }
    /\ chat = [ t \in ChatTasks |-> IdleSettings ]
    /\ NoDispatch
    /\ NoGate

NextSettings ==
    \/ \E t \in ChatTasks, g \in Guilds, m \in Models :
         \/ SettingsFetch(t, g, "read", AI_DEFAULT_MODEL_ID)
         \/ SettingsFetch(t, g, "model_set", m)
    \/ \E t \in ChatTasks : SettingsUpsert(t)
    \/ \E t \in ChatTasks : ModelSet(t)

SpecSettings == InitSettings /\ [][NextSettings]_vars

(***************************************************************************)
(* Chat sessions.  The session store holds one document per (guild, user,  *)
(* channel): its messages and its active and private_default flags.  One   *)
(* actor of one guild runs chat-start, ask and chat-reset from two         *)
(* coroutines, in any of SessionChannels; the commands interleave at their *)
(* awaits of the store, of the thread creation and of the dispatch.  The   *)
(* store is not among the sources: upsert_ai_session sets the given fields *)
(* of the document of a key, creating it when there is none,               *)
(* get_active_ai_session returns a document of the actor with active set,  *)
(* and delete_ai_session removes the document of a key.                    *)
(***************************************************************************)
SessionChannels == { 1, 2 }

SessionKey(c) == << 1, 1, c >>

\* the turns a session keeps in this specification (session_max_turns)
SessionTurns == 1

\* db.get_ai_session: the document of the key, None (the empty one) without
get_ai_session(store, key) == IF key \in DOMAIN store THEN store[key] ELSE << >>

\* db.get_active_ai_session(guild_id, user_id): the channels of the actor's
\* documents with active set; the call returns one of them, None without
get_active_ai_session(store) ==
    { c \in SessionChannels : SessionKey(c) \in DOMAIN store /\ store[SessionKey(c)].active }

\* _update_session (lines 492-511)
update_session(store, key, messages, active, private_default) ==
    [ k \in DOMAIN store \cup { key } |->
        IF k = key
        THEN [ messages |-> messages, active |-> active,
               private_default |-> private_default ]
        ELSE store[k] ]

\* _reset_session (lines 513-514)
reset_session(store, key) == [ k \in DOMAIN store \ { key } |-> store[k] ]

\* a coroutine that runs no command
IdleCommand ==
    [ pc |-> "idle", op |-> "none", channel |-> 0, private |-> TRUE,
      session_active |-> FALSE, private_default |-> TRUE, session_messages |-> << >>,
      outcome |-> "none", before |-> << >>, wrote |-> FALSE ]

\* ai_chat_start up to line 816: the actor's active session is looked up
\* and the command refused when there is one
ChatStartCheck(t, c, private) ==
    /\ chat[t].pc \in { "idle", "done", "refused" }
    /\ chat' = [ chat EXCEPT ![t] =
          [ IdleCommand EXCEPT !.op = "chat_start", !.channel = c, !.private = private,
                               !.pc = IF get_active_ai_session(sessions) # { }
                                      THEN "refused" ELSE "thread" ] ]
    /\ UNCHANGED << mono, user_cooldowns, channel_cooldowns, sessions, settings >>
    /\ UNCHANGED << dispatchVars, gateVars, requests, evald >>

\* lines 818-844: the thread is created (or not), and the session of the
\* target channel is written with no messages and active set; the channel of
\* the command stands for its target, the new thread or the channel itself
ChatStartWrite(t) ==
    /\ chat[t].pc = "thread"
    /\ sessions' = update_session(sessions, SessionKey(chat[t].channel), << >>,
                                  TRUE, chat[t].private)
    /\ chat' = [ chat EXCEPT ![t].pc = "done", ![t].wrote = TRUE ]
    /\ UNCHANGED << mono, user_cooldowns, channel_cooldowns, settings >>
    /\ UNCHANGED << dispatchVars, gateVars, requests, evald >>

\* _run_ai_request lines 653-690 for ai_ask (use_session, session_active =
\* False, private as given): the session is loaded and the dispatch starts
AskLoad(t, c, private) ==
    /\ chat[t].pc \in { "idle", "done", "refused" }
    /\ LET session == get_ai_session(sessions, SessionKey(c))
           found == session # << >>
       IN  chat' = [ chat EXCEPT ![t] =
             [ IdleCommand EXCEPT
                 !.pc = "dispatch", !.op = "ask", !.channel = c, !.private = private,
                 !.before = session,
                 !.private_default = IF found THEN session.private_default ELSE private,
                 !.session_active = IF found THEN session.active ELSE FALSE,
                 !.session_messages =
                     trim_messages(IF found THEN session.messages ELSE << >>,
                                   SessionTurns) ] ]
    /\ UNCHANGED << mono, user_cooldowns, channel_cooldowns, sessions, settings >>
    /\ UNCHANGED << dispatchVars, gateVars, requests, evald >>

AskDispatch_StoresFailures(t, outcome) ==
    /\ chat[t].pc = "dispatch"
    /\ chat' = [ chat EXCEPT ![t].outcome = outcome, ![t].pc = "store" ]
    /\ UNCHANGED << mono, user_cooldowns, channel_cooldowns, sessions, settings >>
    /\ UNCHANGED << dispatchVars, gateVars, requests, evald >>

\* lines 691-697: _call_openrouter returns; on an error or no text the error
\* is sent and the request returns
AskDispatch(t, outcome) ==
    /\ chat[t].pc = "dispatch"
    /\ chat' = [ chat EXCEPT ![t].outcome = outcome,
                             ![t].pc = IF outcome = "ok" THEN "store" ELSE "done" ]
    /\ UNCHANGED << mono, user_cooldowns, channel_cooldowns, sessions, settings >>
    /\ UNCHANGED << dispatchVars, gateVars, requests, evald >>

\* lines 699-712: the exchange is appended, trimmed and stored with the
\* flags taken at the load
AskStore(t) ==
    /\ chat[t].pc = "store"
    /\ LET updated_messages ==
               trim_messages(chat[t].session_messages
                                \o << [ role |-> "user", ts |-> now ],
                                      [ role |-> "assistant", ts |-> now ] >>,
                             SessionTurns)
       IN  sessions' = update_session(sessions, SessionKey(chat[t].channel),
                                      updated_messages, chat[t].session_active,
                                      chat[t].private_default)
    /\ chat' = [ chat EXCEPT ![t].pc = "done", ![t].wrote = TRUE ]
    /\ UNCHANGED << mono, user_cooldowns, channel_cooldowns, settings >>
    /\ UNCHANGED << dispatchVars, gateVars, requests, evald >>

\* ai_chat_reset, line 868
ChatReset(t, c) ==
    /\ chat[t].pc \in { "idle", "done", "refused" }
    /\ sessions' = reset_session(sessions, SessionKey(c))
    /\ chat' = [ chat EXCEPT ![t] =
          [ IdleCommand EXCEPT !.pc = "done", !.op = "chat_reset", !.channel = c,
                               !.wrote = SessionKey(c) \in DOMAIN sessions ] ]
    /\ UNCHANGED << mono, user_cooldowns, channel_cooldowns, settings >>
    /\ UNCHANGED << dispatchVars, gateVars, requests, evald >>

InitSession ==
    /\ mono = Mono0
    /\ user_cooldowns = << >>
    /\ channel_cooldowns = << >>
    /\ sessions = << >>
    /\ settings = << >>
    /\ chat = [ t \in ChatTasks |-> IdleCommand ]
    /\ NoDispatch
    /\ NoGate

NextSession ==
    \/ \E t \in ChatTasks, c \in SessionChannels, p \in BOOLEAN : ChatStartCheck(t, c, p)
    \/ \E t \in ChatTasks : ChatStartWrite(t)
    \/ \E t \in ChatTasks, c \in SessionChannels : AskLoad(t, c, TRUE)
    \/ \E t \in ChatTasks, o \in { "ok", "error", "no_text" } : AskDispatch(t, o)
    \/ \E t \in ChatTasks : AskStore(t)
    \/ \E t \in ChatTasks, c \in SessionChannels : ChatReset(t, c)

SpecSession == InitSession /\ [][NextSession]_vars

(***************************************************************************)
(* Vocabulary of the properties.                                           *)
(***************************************************************************)
\* the upstream calls / decryptions dispatch d has made with key k
CallsWith(d, k) == { i \in DOMAIN upstream : upstream[i].d = d /\ upstream[i].key = k }

DecryptsOf(d, k) == { i \in DOMAIN decrypted : decrypted[i].d = d /\ decrypted[i].key = k }

CallsBy(d) == { i \in DOMAIN upstream : upstream[i].d = d }

\* the iteration of attempt a is over (its outcome written, its notification made)
Finished(a) ==
    /\ a.step # "pending"
    /\ a.step = "notify" => a.notify # "none"

\* the slice candidates[:3] of dispatch d
SliceLen(d) == Min(Len(disp[d].candidates), 3)

\* after attempt i the loop went on: to candidate i + 1 when the slice holds
\* one, to the final `return None, last_error` otherwise
Advanced(d, i) ==
    IF i < SliceLen(d)
    THEN \/ Len(disp[d].attempts) > i
         \/ disp[d].pc = "decrypt" /\ disp[d].idx = i + 1
    ELSE /\ disp[d].pc = "returned"
         /\ disp[d].result_text = NoneMsg
         /\ disp[d].result_error = disp[d].last_error

\* candidate j of dispatch d was not decrypted, reserved, contacted or modified
Untouched(d, j) ==
    LET k == disp[d].candidates[j].doc.name
    IN  /\ DecryptsOf(d, k) = { }
        /\ CallsWith(d, k) = { }
        /\ keys[k] = disp[d].store0[k]

\* the loop stopped at attempt i: dispatch has returned and no later candidate
\* was touched
StoppedAt(d, i) ==
    /\ disp[d].pc = "returned"
    /\ Len(disp[d].attempts) = i
    /\ \A j \in DOMAIN disp[d].candidates : j > i => Untouched(d, j)

(***************************************************************************)
(* C1.  For one guild and a fixed ceiling c >= 1, under every interleaving *)
(* of acquire and release calls the stored in-flight count never exceeds   *)
(* c, and as long as no release has been called the acquires that have     *)
(* returned hold exactly min(n, c) successes among n.                      *)
(***************************************************************************)
C1_GateNeverExceedsCeiling ==
    \A g \in Guilds :
        /\ inflight_get(guild_inflight, g) <= ceiling
        /\ rel_calls[g] = 0 => acq_log[g].ok = Min(acq_log[g].done, ceiling)

\* three acquires in progress at once, ceiling 2, no release: two admitted, one refused
C1_Witness ==
    \E g \in Guilds :
        /\ ceiling = 2
        /\ rel_calls[g] = 0
        /\ acq_log[g].overlap = 3
        /\ acq_log[g].done = 3
        /\ acq_log[g].ok = 2
        /\ guild_inflight[g] = 2

(***************************************************************************)
(* C2.  A dispatch attempts at most the first 3 candidates of the ranked   *)
(* list, in order: it makes at most 3 upstream calls, and a candidate      *)
(* ranked fourth or later is never decrypted, reserved or contacted.       *)
(***************************************************************************)
C2_AtMostThreeAttempts ==
    \A d \in DOMAIN disp :
        /\ Cardinality(CallsBy(d)) <= 3
        /\ Len(disp[d].attempts) <= 3
        /\ \A i \in DOMAIN disp[d].attempts :
              disp[d].attempts[i].key = disp[d].candidates[i].doc.name
        /\ \A j \in DOMAIN disp[d].candidates : j > 3 => Untouched(d, j)

\* four eligible candidates, the first three failed with advancing errors
C2_Witness ==
    \E d \in DOMAIN disp :
        /\ Len(disp[d].candidates) = 4
        /\ disp[d].pc = "returned"
        /\ Cardinality(CallsBy(d)) = 3
        /\ \A i \in 1..3 : disp[d].attempts[i].step \in { "continue", "notify" }

(***************************************************************************)
(* C3.  After a 200 whose body holds a completion text, dispatch has       *)
(* returned that text and no error, the loop has stopped (no later         *)
(* candidate decrypted, reserved, contacted or modified), and the          *)
(* successful credential carries no error, no new cooldown and no disable. *)
(***************************************************************************)
C3_SuccessTerminates ==
    \A d \in DOMAIN disp : \A i \in DOMAIN disp[d].attempts :
        LET a == disp[d].attempts[i]
            k == a.key
        IN  (a.resp.kind = "http" /\ a.resp.status = 200 /\ a.resp.body = "completion"
                /\ Finished(a))
            => /\ StoppedAt(d, i)
               /\ disp[d].result_text = Lit("Hello", 5)
               /\ disp[d].result_error = NoneMsg
               /\ keys[k].last_error_code = NoneVal
               /\ keys[k].last_error = NoneMsg
               /\ keys[k].last_error_at = NoneVal
               /\ keys[k].cooldown_until = disp[d].store0[k].cooldown_until
               /\ keys[k].enabled = disp[d].store0[k].enabled

\* the second candidate of three succeeds after the first failed
C3_Witness ==
    \E d \in DOMAIN disp :
        /\ Len(disp[d].candidates) >= 3
        /\ Len(disp[d].attempts) = 2
        /\ disp[d].attempts[1].step = "continue"
        /\ disp[d].attempts[2].resp.status = 200
        /\ disp[d].attempts[2].resp.body = "completion"
        /\ disp[d].pc = "returned"

(***************************************************************************)
(* C4.  After a 200 whose body is unparsable (not JSON, empty, or JSON     *)
(* without choices[0].message.content) the credential has the 20-second    *)
(* cooldown, the error is recorded and the loop has advanced.              *)
(***************************************************************************)
C4_UnparsableAdvances ==
    \A d \in DOMAIN disp : \A i \in DOMAIN disp[d].attempts :
        LET a == disp[d].attempts[i]
            k == a.key
        IN  (a.resp.kind = "http" /\ a.resp.status = 200
                /\ a.resp.body \in { "not_json", "empty", "no_choices", "empty_obj" }
                /\ Finished(a))
            => /\ keys[k].cooldown_until = a.wrote_at + 20
               /\ keys[k].last_error_code = 200
               /\ keys[k].last_error_at = a.wrote_at
               /\ Advanced(d, i)

(***************************************************************************)
(* C5.  After a 429 the credential's cooldown_until is the time of the     *)
(* error plus the Retry-After value when the header is a number, plus 30   *)
(* seconds otherwise; the error is recorded, the credential is still       *)
(* enabled and the loop has advanced.                                      *)
(***************************************************************************)
C5_RateLimitCooldown ==
    \A d \in DOMAIN disp : \A i \in DOMAIN disp[d].attempts :
        LET a == disp[d].attempts[i]
            k == a.key
            h == a.resp.retry_after
        IN  (a.resp.kind = "http" /\ a.resp.status = 429 /\ disp[d].pc # "handle")
            => /\ a.step = "continue"
               /\ keys[k].last_error_code = 429
               /\ keys[k].last_error_at = a.wrote_at
               /\ keys[k].enabled
               /\ h.kind = "number" =>
                    keys[k].cooldown_until = a.wrote_at + IntOfFloat(h.tenths)
               /\ h.kind \in { "absent", "text" } =>
                    keys[k].cooldown_until = a.wrote_at + 30
               /\ Advanced(d, i)

(***************************************************************************)
(* C6.  After a 401 or a 402 and its notification, the credential is       *)
(* disabled, the error is recorded, the operator notification was          *)
(* attempted and the loop has advanced.                                    *)
(***************************************************************************)
C6_AuthFailureDisables ==
    \A d \in DOMAIN disp : \A i \in DOMAIN disp[d].attempts :
        LET a == disp[d].attempts[i]
            k == a.key
        IN  (a.resp.kind = "http" /\ a.resp.status \in { 401, 402 } /\ Finished(a))
            => /\ ~keys[k].enabled
               /\ keys[k].last_error_code = a.resp.status
               /\ \E n \in DOMAIN notified : notified[n].d = d /\ notified[n].key = k
               /\ disp[d].pc # "raised"
               /\ Advanced(d, i)

(***************************************************************************)
(* C7.  After a transport failure of the upstream call or a status >= 500  *)
(* the credential's cooldown_until is 20 seconds after the time of the     *)
(* error, the error is recorded, enabled is unchanged and the loop has     *)
(* advanced.                                                               *)
(***************************************************************************)
C7_TransientCooldown ==
    \A d \in DOMAIN disp : \A i \in DOMAIN disp[d].attempts :
        LET a == disp[d].attempts[i]
            k == a.key
        IN  ((a.resp.kind = "exception" \/ (a.resp.kind = "http" /\ a.resp.status >= 500))
                /\ disp[d].pc # "handle")
            => /\ a.step = "continue"
               /\ a.wrote_at >= a.reserved_at
               /\ keys[k].cooldown_until = a.wrote_at + 20
               /\ keys[k].last_error_at = a.wrote_at
               /\ keys[k].last_error_code =
                    (IF a.resp.kind = "exception" THEN 0 ELSE a.resp.status)
               /\ keys[k].last_error # NoneMsg
               /\ keys[k].enabled = disp[d].store0[k].enabled
               /\ Advanced(d, i)

\* a transport failure, then a 500 answered later, then a third candidate
C7_Witness ==
    \E d \in DOMAIN disp :
        /\ Len(disp[d].attempts) = 3
        /\ disp[d].attempts[1].resp.kind = "exception"
        /\ disp[d].attempts[2].resp.status = 500
        /\ disp[d].attempts[2].wrote_at > disp[d].attempts[1].wrote_at

(***************************************************************************)
(* C8, as claimed.  After any response other than a 200 with a completion, *)
(* a 429, a 401, a 402 and a status >= 500, the credential has a 30-second *)
(* cooldown, the loop has stopped and dispatch has returned no text and    *)
(* the upstream error message.                                             *)
(***************************************************************************)
C8_Original ==
    \A d \in DOMAIN disp : \A i \in DOMAIN disp[d].attempts :
        LET a == disp[d].attempts[i]
            k == a.key
        IN  (a.resp.kind = "http"
                /\ ~(a.resp.status = 200 /\ a.resp.body = "completion")
                /\ a.resp.status \notin { 429, 401, 402 } /\ a.resp.status < 500
                /\ disp[d].pc # "handle")
            => /\ keys[k].cooldown_until = a.wrote_at + 30
               /\ StoppedAt(d, i)
               /\ disp[d].result_text = NoneMsg
               /\ disp[d].result_error = ErrorMessage(a.resp.body)

(***************************************************************************)
(* C8, as it holds.  After any status other than 200, 429, 401, 402 and    *)
(* >= 500, the credential has a 30-second cooldown and the error recorded, *)
(* the loop has stopped (no later candidate decrypted, reserved or         *)
(* contacted, also when fewer than 3 were tried) and dispatch has returned *)
(* no text and the upstream error message.                                 *)
(***************************************************************************)
C8_OtherStatusStops ==
    \A d \in DOMAIN disp : \A i \in DOMAIN disp[d].attempts :
        LET a == disp[d].attempts[i]
            k == a.key
        IN  (a.resp.kind = "http"
                /\ a.resp.status \notin { 200, 429, 401, 402 } /\ a.resp.status < 500
                /\ disp[d].pc # "handle")
            => /\ a.step = "break"
               /\ keys[k].cooldown_until = a.wrote_at + 30
               /\ keys[k].last_error_code = a.resp.status
               /\ StoppedAt(d, i)
               /\ disp[d].result_text = NoneMsg
               /\ disp[d].result_error = ErrorMessage(a.resp.body)

\* a 404 on the first of three candidates: the two others are never tried
C8_Witness ==
    \E d \in DOMAIN disp :
        /\ Len(disp[d].candidates) >= 3
        /\ Len(disp[d].attempts) = 1
        /\ disp[d].attempts[1].resp.status = 404
        /\ disp[d].pc = "returned"
        /\ disp[d].result_error = Lit("No endpoints found", 18)

(***************************************************************************)
(* C9.  When decryption fails because the encryption secret is not         *)
(* configured, dispatch has returned no text and that error's message, no  *)
(* further candidate was tried, no upstream call was made and the          *)
(* credential's record is as it was.                                       *)
(***************************************************************************)
C9_ConfigErrorAborts ==
    \A d \in DOMAIN disp : \A i \in DOMAIN disp[d].attempts :
        LET a == disp[d].attempts[i]
        IN  (~secret_env /\ a.decrypt # "pending")
            => /\ StoppedAt(d, i)
               /\ i = 1
               /\ disp[d].result_text = NoneMsg
               /\ disp[d].result_error = Lit("LOGIQ_AI_KEY_ENC_SECRET is not set", 34)
               /\ CallsBy(d) = { }
               /\ keys = disp[d].store0

\* the secret is not set and the pool holds three eligible keys
C9_Witness ==
    \E d \in DOMAIN disp :
        /\ ~secret_env
        /\ Len(disp[d].candidates) >= 3
        /\ Len(disp[d].attempts) = 1
        /\ disp[d].pc = "returned"

(***************************************************************************)
(* C10.  When the secret is configured and a candidate's stored payload is *)
(* corrupt, dispatch does not abort: the credential error is recorded, the *)
(* credential is disabled and the loop has advanced.                       *)
(***************************************************************************)
C10_CorruptPayloadAdvances ==
    \A d \in DOMAIN disp : \A i \in DOMAIN disp[d].attempts :
        LET a == disp[d].attempts[i]
            k == a.key
        IN  (secret_env /\ disp[d].store0[k].encrypted_api_key # "valid"
                /\ a.decrypt # "pending" /\ disp[d].pc # "decrypt_failed")
            => /\ a.step # "abort"
               /\ ~keys[k].enabled
               /\ keys[k].last_error_code = 0
               /\ Advanced(d, i)

(***************************************************************************)
(* C11.  For every candidate whose secret decrypted, from the moment its   *)
(* upstream call starts the credential record holds the advanced window    *)
(* starts and a minute count and a day count each exactly one above the    *)
(* advanced counts, and keeps them when the call then fails; a candidate   *)
(* whose decryption failed has its window starts and counts as they were.  *)
(***************************************************************************)
C11_ReservationBeforeCall ==
    \A d \in DOMAIN disp : \A i \in DOMAIN disp[d].attempts :
        LET a == disp[d].attempts[i]
            k == a.key
            c == disp[d].candidates[i]
            before == disp[d].store0[k]
        IN  /\ (CallsWith(d, k) # { }) <=> (a.reserved_at # NoneVal)
            /\ a.reserved_at # NoneVal =>
                  /\ a.decrypt = "ok"
                  /\ << c.minute_start, c.minute_count >> =
                        window_state(before.minute_window_started_at,
                                     before.minute_window_count, 60, Now0)
                  /\ << c.day_start, c.day_count >> =
                        window_state(before.day_started_at, before.day_count, 86400, Now0)
                  /\ keys[k].minute_window_started_at = c.minute_start
                  /\ keys[k].day_started_at = c.day_start
                  /\ keys[k].minute_window_count = c.minute_count + 1
                  /\ keys[k].day_count = c.day_count + 1
            /\ a.decrypt \notin { "ok", "pending" } =>
                  /\ keys[k].minute_window_started_at = before.minute_window_started_at
                  /\ keys[k].day_started_at = before.day_started_at
                  /\ keys[k].minute_window_count = before.minute_window_count
                  /\ keys[k].day_count = before.day_count
                  /\ keys[k].last_used_at = before.last_used_at

\* after a first key failed, a key whose minute window had run out is reserved
\* (fresh window of count 1, day count 2) and its call fails with a 500
C11_Witness ==
    \E d \in DOMAIN disp :
        /\ Len(disp[d].attempts) = 2
        /\ disp[d].attempts[1].step = "continue"
        /\ disp[d].attempts[2].resp.status = 500
        /\ disp[d].attempts[2].step = "continue"
        /\ disp[d].store0[disp[d].attempts[2].key].minute_window_started_at = Now0 - 130
        /\ keys[disp[d].attempts[2].key].minute_window_started_at = Now0
        /\ keys[disp[d].attempts[2].key].minute_window_count = 1
        /\ keys[disp[d].attempts[2].key].day_count = 2

(***************************************************************************)
(* C12.  Right after the reservation write (the upstream call is in        *)
(* flight) the credential record has no last_error_code, no last_error     *)
(* text, no last_error_at and no cooldown_until.                           *)
(***************************************************************************)
C12_ReservationClearsCooldown ==
    \A d \in DOMAIN disp :
        disp[d].pc = "calling" =>
            LET k == Cand(disp[d]).doc.name
            IN  /\ keys[k].last_error_code = NoneVal
                /\ keys[k].last_error = NoneMsg
                /\ keys[k].last_error_at = NoneVal
                /\ keys[k].cooldown_until = NoneVal

(***************************************************************************)
(* C13.  When a dispatch is over and no candidate answered with a          *)
(* completion (the candidate list was empty, or every attempted candidate  *)
(* failed), it has returned no text together with a non-empty error        *)
(* message, and that message is the one of the last failure encountered.   *)
(***************************************************************************)
\* the message the failure of attempt a leaves for the caller
FailureMessage(d, a) ==
    IF a.decrypt \notin { "ok", "pending" }
    THEN IF a.step = "abort"
         THEN decrypt_api_key(disp[d].store0[a.key].encrypted_api_key, secret_env).msg
         ELSE Lit("AI key decryption failed.", 25)
    ELSE HandleResponse(a.resp).last_error

\* some attempt of dispatch d received a 200 holding choices[0].message.content
Answered(d) ==
    \E i \in DOMAIN disp[d].attempts :
        LET r == disp[d].attempts[i].resp
        IN  r.kind = "http" /\ r.status = 200 /\ r.body \in { "completion", "null_content" }

C13_LastErrorReturned ==
    \A d \in DOMAIN disp :
        (disp[d].pc \in { "returned", "raised" } /\ ~Answered(d))
        => /\ disp[d].pc = "returned"
           /\ disp[d].result_text = NoneMsg
           /\ TruthyMsg(disp[d].result_error)
           /\ disp[d].result_error =
                IF disp[d].attempts = << >>
                THEN Lit("No available AI keys. Ask an admin to add or enable keys.", 57)
                ELSE FailureMessage(d, disp[d].attempts[Len(disp[d].attempts)])

\* dispatch d has returned the text of attempt n after attempts 1..n-1 were all
\* answered 429 or >= 500
SucceededAfterFailures(d, n) ==
    /\ disp[d].pc = "returned"
    /\ n = Len(disp[d].attempts)
    /\ n >= 2
    /\ disp[d].attempts[n].step = "return"
    /\ disp[d].attempts[n].resp.body = "completion"
    /\ \A i \in 1..(n - 1) :
          LET r == disp[d].attempts[i].resp
          IN  r.kind = "http" /\ (r.status = 429 \/ r.status >= 500)

\* the record of credential k is in cooldown at time t
InCooldown(k, t) == keys[k].cooldown_until # NoneVal /\ t < keys[k].cooldown_until

AdvancedWindow(start, count, duration, t) ==
    IF start = NoneVal \/ t - start >= duration THEN << t, 0 >> ELSE << start, count >>

\* the six reasons that make a credential ineligible at time t
Ineligible(doc, t) ==
    \/ ~doc.enabled
    \/ doc.cooldown_until # NoneVal /\ t < doc.cooldown_until
    \/ doc.rpm_limit <= 0
    \/ doc.rpd_limit <= 0
    \/ AdvancedWindow(doc.minute_window_started_at, doc.minute_window_count, 60, t)[2]
          >= doc.rpm_limit
    \/ AdvancedWindow(doc.day_started_at, doc.day_count, 86400, t)[2] >= doc.rpd_limit

(***************************************************************************)
(* C15.  _build_key_candidate(doc, now) returns None exactly when the      *)
(* credential is disabled, or now < cooldown_until, or a limit is <= 0, or *)
(* an advanced count has reached its limit; otherwise it returns a         *)
(* candidate carrying the document and the advanced window values.         *)
(***************************************************************************)
C15_EligibilityRule ==
    evald.op = "evaluate" =>
        LET doc == evald.doc
            m == AdvancedWindow(doc.minute_window_started_at, doc.minute_window_count,
                                60, evald.t)
            y == AdvancedWindow(doc.day_started_at, doc.day_count, 86400, evald.t)
        IN  /\ (evald.out = NoCandidate) <=> Ineligible(doc, evald.t)
            /\ evald.out # NoCandidate =>
                  /\ evald.out.doc = doc
                  /\ << evald.out.minute_start, evald.out.minute_count >> = m
                  /\ << evald.out.day_start, evald.out.day_count >> = y

\* eligible only through the advance: the stored minute count had reached the
\* limit but its window is 60 s old, and the cooldown ends exactly now
C15_Witness ==
    /\ evald.op = "evaluate"
    /\ evald.out # NoCandidate
    /\ evald.doc.cooldown_until = evald.t
    /\ evald.doc.minute_window_started_at = evald.t - 60
    /\ evald.doc.minute_window_count >= evald.doc.rpm_limit
    /\ evald.out.minute_start = evald.t
    /\ evald.out.minute_count = 0
    /\ evald.out.day_count = 1

\* credential i of a ranking goes before credential j: never-used first, then
\* the least recently used
UsedNoLater(a, b) ==
    \/ a.last_used_at = NoneVal
    \/ b.last_used_at # NoneVal /\ a.last_used_at <= b.last_used_at

(***************************************************************************)
(* C16.  _select_key_candidates returns exactly the eligible credentials   *)
(* of the pool, each once; a credential with a higher score comes before   *)
(* one with a lower score whatever their last_used_at, and among equal     *)
(* scores the never-used come first, then ascending last_used_at.          *)
(***************************************************************************)
C16_SelectRanks ==
    evald.op = "select" =>
        LET out == evald.out
            store == evald.store
        IN  /\ { out[i].doc.name : i \in DOMAIN out } =
                  { k \in DOMAIN store : ~Ineligible(store[k], evald.t) }
            /\ \A i \in DOMAIN out : out[i].doc = store[out[i].doc.name]
            /\ \A i, j \in DOMAIN out :
                  i < j =>
                    /\ out[i].doc.name # out[j].doc.name
                    /\ out[i].score_num * out[j].score_den
                          >= out[j].score_num * out[i].score_den
                    /\ out[i].score_num * out[j].score_den
                          = out[j].score_num * out[i].score_den
                       => UsedNoLater(out[i], out[j])
            /\ keys = store

\* the store lists a lower-scored never-used key, then a top-scored key used
\* 20 s ago, then a top-scored never-used key: the ranking is third, second, first
C16_Witness ==
    /\ evald.op = "select"
    /\ Len(evald.out) = 3
    /\ evald.out[1].doc.name = 3
    /\ evald.out[2].doc.name = 2
    /\ evald.out[3].doc.name = 1
    /\ evald.out[1].last_used_at = NoneVal
    /\ evald.out[2].last_used_at = evald.t - 20
    /\ evald.out[3].last_used_at = NoneVal
    /\ evald.out[1].score_num * evald.out[2].score_den
          = evald.out[2].score_num * evald.out[1].score_den
    /\ evald.out[2].score_num * evald.out[3].score_den
          > evald.out[3].score_num * evald.out[2].score_den

(***************************************************************************)
(* C17.  _window_state(start, count, duration, now) returns (now, 0) when  *)
(* start is absent or now - start >= duration, and (start, count)          *)
(* unchanged otherwise; the stored document is not modified.               *)
(***************************************************************************)
C17_AdvanceWindow ==
    evald.op = "advance" =>
        /\ (evald.start = NoneVal \/ evald.t - evald.start >= evald.duration)
              => evald.out = << evald.t, 0 >>
        /\ (evald.start # NoneVal /\ evald.t - evald.start < evald.duration)
              => evald.out = << evald.start, evald.count >>
        /\ \E k \in DOMAIN keys :
              \/ << keys[k].minute_window_started_at, keys[k].minute_window_count >>
                    = << evald.start, evald.count >>
              \/ << keys[k].day_started_at, keys[k].day_count >>
                    = << evald.start, evald.count >>

\* a minute window exactly 60 s old with two uses is replaced by a fresh one
C17_Witness ==
    /\ evald.op = "advance"
    /\ evald.duration = 60
    /\ evald.start = evald.t - 60
    /\ evald.count = 2
    /\ evald.out = << evald.t, 0 >>
    /\ keys[1].minute_window_started_at = evald.t - 60
    /\ keys[1].minute_window_count = 2

(***************************************************************************)
(* C18.  Raising rpm_limit or rpd_limit of a credential, its counts,       *)
(* window starts, enabled flag and cooldown_until staying as they are,     *)
(* never turns an eligible credential into an ineligible one.              *)
(***************************************************************************)
C18_EligibilityMonotonic ==
    evald.op = "raise" =>
        /\ evald.raised.rpm_limit >= evald.doc.rpm_limit
        /\ evald.raised.rpd_limit >= evald.doc.rpd_limit
        /\ [ evald.raised EXCEPT !.rpm_limit = evald.doc.rpm_limit,
                                 !.rpd_limit = evald.doc.rpd_limit ] = evald.doc
        /\ evald.out # NoCandidate => evald.out_raised # NoCandidate

\* an eligible credential with one use in each running window and room for one
\* more stays eligible with both limits raised
C18_Witness ==
    /\ evald.op = "raise"
    /\ evald.out # NoCandidate
    /\ evald.out.minute_count = 1
    /\ evald.out.day_count = 1
    /\ evald.doc.rpm_limit = 2
    /\ evald.raised.rpm_limit > evald.doc.rpm_limit
    /\ evald.raised.rpd_limit > evald.doc.rpd_limit
    /\ evald.out_raised # NoCandidate

\* the upstream calls made with credential k by any dispatch
AllCallsWith(k) == { i \in DOMAIN upstream : upstream[i].key = k }

(***************************************************************************)
(* C19.  A reservation is no atomic read-modify-write: the counts it       *)
(* persists are the counts its dispatch read when it listed the keys, plus *)
(* one, whatever the record holds by then.  (So two dispatches that read   *)
(* the same count n both persist n + 1: the state C19_Witness.)            *)
(***************************************************************************)
C19_ReservationWritesItsSnapshot ==
    [][ \A d \in DOMAIN disp :
          (disp[d].pc = "reserve" /\ disp'[d].pc = "calling") =>
              LET c == Cand(disp[d])
                  k == c.doc.name
              IN  /\ keys'[k].minute_window_count = c.minute_count + 1
                  /\ keys'[k].day_count = c.day_count + 1
                  /\ keys'[k].minute_window_started_at = c.minute_start
                  /\ Cardinality(AllCallsWith(k))' = Cardinality(AllCallsWith(k)) + 1
      ]_vars

\* both dispatches listed the key at count n = rpm_limit - 1 and both reserved
\* it in the same minute window: n + 1 is persisted, two calls were made, and
\* the calls of the window (n + 2) exceed rpm_limit
C19_Witness ==
    \E k \in DOMAIN keys :
        LET n == disp[1].candidates[1].minute_count
        IN  /\ \A d \in Dispatchers :
                  /\ Len(disp[d].attempts) = 1
                  /\ disp[d].attempts[1].key = k
                  /\ disp[d].attempts[1].reserved_at # NoneVal
                  /\ disp[d].candidates[1].minute_count = n
                  /\ disp[d].candidates[1].minute_start = keys[k].minute_window_started_at
            /\ Cardinality(AllCallsWith(k)) = 2
            /\ keys[k].minute_window_count = n + 1
            /\ keys[k].minute_window_count < n + Cardinality(AllCallsWith(k))
            /\ n + Cardinality(AllCallsWith(k)) > keys[k].rpm_limit

\* the requests for guild g that were admitted and have not finished
Admitted(g) ==
    { t \in DOMAIN requests :
        requests[t].guild = g /\ requests[t].phase \in { "body", "finally", "releasing" } }

(***************************************************************************)
(* C20.  A request that is over has released its slot exactly once when it *)
(* was admitted (whether its dispatch succeeded, returned an error or      *)
(* raised) and never when it was refused; the in-flight count of a guild   *)
(* equals the number of its admitted and not yet finished requests; and a  *)
(* guild without such requests has no in-flight entry.                     *)
(***************************************************************************)
C20_SlotReleasedOnce ==
    /\ \A t \in DOMAIN requests :
          /\ requests[t].released <= 1
          /\ requests[t].phase = "done" =>
                requests[t].released = 1 /\ requests[t].outcome \in BodyOutcomes
          /\ requests[t].phase \in { "acquiring", "refused", "body", "finally" } =>
                requests[t].released = 0
    /\ \A g \in Guilds :
          /\ inflight_get(guild_inflight, g) = Cardinality(Admitted(g))
          /\ Admitted(g) = { } => g \notin DOMAIN guild_inflight

\* two requests were admitted together (count 2, seen by a third party while
\* both were running); one raised, the other succeeded, both are over and the
\* guild has no entry left
C20_Witness ==
    \E t1, t2 \in DOMAIN requests :
        /\ requests[t1].phase = "done" /\ requests[t1].outcome = "raised"
        /\ requests[t2].phase = "done" /\ requests[t2].outcome = "answered"
        /\ requests[t1].guild = requests[t2].guild
        /\ acq_log[requests[t1].guild].ok = 2
        /\ acq_log[requests[t1].guild].overlap = 2
        /\ requests[t1].guild \notin DOMAIN guild_inflight

(***************************************************************************)
(* C21.  After any sequence of acquire and release calls, every stored     *)
(* in-flight value is at least 1: a release that reaches zero removes the  *)
(* guild's entry, and a release for a guild without an entry leaves it     *)
(* without one.                                                            *)
(***************************************************************************)
C21_StoredCountsPositive ==
    \A g \in DOMAIN guild_inflight : guild_inflight[g] >= 1

\* more releases than admissions have completed for a guild (so one of them
\* found no entry or brought the count to zero) and the guild has no entry
C21_Witness ==
    \E g \in Guilds :
        /\ rel_calls[g] > acq_log[g].ok
        /\ acq_log[g].ok >= 1
        /\ \A t \in Tasks : gate[t].pc = "idle"
        /\ g \notin DOMAIN guild_inflight

\* the key's cooldown has not elapsed: a commit is recorded and the time since
\* is less than the cooldown (times in tenths of a second)
Unmet(last_ts, cooldown_seconds) ==
    last_ts # NoneVal /\ mono - last_ts < cooldown_seconds * 10

\* the number of seconds a refusal reports is the cooldown minus the elapsed
\* time, to within the second, and is neither 0 nor negative
ReportsRemaining(seconds, last_ts, cooldown_seconds) ==
    LET remaining == cooldown_seconds * 10 - (mono - last_ts)
    IN  /\ seconds * 10 <= remaining
        /\ remaining < seconds * 10 + 10
        /\ seconds > 0

(***************************************************************************)
(* C24.  _check_cooldowns refuses exactly when the time since the last     *)
(* commit of the actor's key or of the channel's key is less than its      *)
(* cooldown, and then reports a remaining time equal to the cooldown minus *)
(* the elapsed time that is never 0 and never negative; it returns None    *)
(* once the cooldown has elapsed and when no commit was recorded.          *)
(***************************************************************************)
C24_CheckReportsRemaining ==
    evald.op = "check" =>
        LET user_ts == DictGet(user_cooldowns, << evald.guild, evald.user >>)
            channel_ts == DictGet(channel_cooldowns, << evald.guild, evald.channel >>)
        IN  /\ evald.result = NoRefusal <=>
                  /\ ~Unmet(user_ts, evald.user_cooldown)
                  /\ ~Unmet(channel_ts, evald.channel_cooldown)
            /\ evald.result.kind = "Cooldown active" =>
                  /\ Unmet(user_ts, evald.user_cooldown)
                  /\ ReportsRemaining(evald.result.seconds, user_ts, evald.user_cooldown)
            /\ evald.result.kind = "Channel cooldown active" =>
                  /\ Unmet(channel_ts, evald.channel_cooldown)
                  /\ ReportsRemaining(evald.result.seconds, channel_ts,
                                      evald.channel_cooldown)

(***************************************************************************)
(* C25.  When the actor's cooldown and the channel's cooldown are both     *)
(* unmet, _check_cooldowns returns the larger of the two remaining times.  *)
(***************************************************************************)
C25_ReportsLargerRemaining ==
    evald.op = "check" =>
        LET user_ts == DictGet(user_cooldowns, << evald.guild, evald.user >>)
            channel_ts == DictGet(channel_cooldowns, << evald.guild, evald.channel >>)
            user_remaining == cooldown_remaining(user_ts, evald.user_cooldown, mono)
            channel_remaining ==
                cooldown_remaining(channel_ts, evald.channel_cooldown, mono)
        IN  Unmet(user_ts, evald.user_cooldown) /\ Unmet(channel_ts, evald.channel_cooldown)
                => evald.result.seconds =
                       IntOfFloat(Max(user_remaining, channel_remaining))

\* the place of the n-th most recent user turn of s (0 when s holds fewer)
NthLastUser(s, n) ==
    LET at == { i \in DOMAIN s :
                   /\ s[i].role = "user"
                   /\ Cardinality({ j \in i..Len(s) : s[j].role = "user" }) = n }
    IN  IF at = { } THEN 0 ELSE CHOOSE i \in at : TRUE

(***************************************************************************)
(* C26.  _trim_messages(turns, n) with n >= 1 returns the suffix of turns  *)
(* that begins at the n-th most recent user turn, the whole of turns when  *)
(* it holds fewer than n user turns, in the original order, so that the    *)
(* result holds at most n user turns; with n <= 0 it returns the empty     *)
(* sequence.                                                               *)
(***************************************************************************)
C26_TrimKeepsLastTurns ==
    evald.op = "trim" =>
        LET turns == evald.messages
            n == evald.max_turns
            first == NthLastUser(turns, n)
        IN  /\ n <= 0 => evald.result = << >>
            /\ n >= 1 /\ UserTurns(turns) < n => evald.result = turns
            /\ n >= 1 /\ UserTurns(turns) >= n =>
                  /\ first >= 1
                  /\ evald.result = SubSeq(turns, first, Len(turns))
            /\ n >= 1 => UserTurns(evald.result) <= n

\* 5 user turns in 10 alternating messages, n = 2: the last 2 user turns and
\* the assistant turns after the earliest retained one
C26_Witness ==
    /\ evald.op = "trim"
    /\ evald.max_turns = 2
    /\ Len(evald.messages) = 10
    /\ \A i \in 1..10 :
          evald.messages[i].role = IF i % 2 = 1 THEN "user" ELSE "assistant"
    /\ evald.result = SubSeq(evald.messages, 7, 10)

Committed(t) == chat[t].pc \in { "loading", "dispatch", "store", "finally", "done" }

\* the actor's cooldown was unmet when the request of task t started
StartedWithinCooldown(t) ==
    /\ chat[t].user_last # NoneVal
    /\ chat[t].started_at - chat[t].user_last
          < settings[chat[t].guild].user_cooldown_seconds * 10

(***************************************************************************)
(* C23.  The cooldown stamps change only in the step that admits a         *)
(* request, after its prompt checks, its cooldown check and the gate have  *)
(* passed and before its dispatch starts, and that step sets the stamp of  *)
(* the actor's key and of the channel's key to the monotonic time; stamps  *)
(* are never removed, also when the dispatch fails, so that a request of   *)
(* an actor whose cooldown is unmet is refused.                            *)
(***************************************************************************)
C23_CommitAfterAdmission ==
    /\ [](\A t \in DOMAIN chat :
            /\ Committed(t) =>
                  /\ chat[t].prompt_ok /\ ~StartedWithinCooldown(t)
                  /\ DictGet(user_cooldowns, << chat[t].guild, chat[t].user >>)
                        >= chat[t].started_at
                  /\ DictGet(channel_cooldowns, << chat[t].guild, chat[t].channel >>)
                        >= chat[t].started_at
            /\ chat[t].pc # "idle" /\ chat[t].prompt_ok /\ StartedWithinCooldown(t)
                  => chat[t].pc = "cooldown")
    /\ [][ user_cooldowns' # user_cooldowns \/ channel_cooldowns' # channel_cooldowns =>
              \E t \in DOMAIN chat :
                  /\ chat[t].pc \notin { "loading", "dispatch", "store", "finally" }
                  /\ chat'[t].pc = "loading"
                  /\ inflight_get(guild_inflight, chat'[t].guild) < ceiling
                  /\ user_cooldowns' =
                        DictSet(user_cooldowns, << chat'[t].guild, chat'[t].user >>, mono)
                  /\ channel_cooldowns' =
                        DictSet(channel_cooldowns,
                                << chat'[t].guild, chat'[t].channel >>, mono) ]_vars

\* a request was admitted and stamped, its dispatch failed, and half a second
\* after its start the same actor's next request was refused for the cooldown
C23_Witness ==
    \E t1, t2 \in DOMAIN chat :
        /\ chat[t1].pc = "done" /\ chat[t1].outcome = "error"
        /\ chat[t2].pc = "cooldown"
        /\ chat[t2].user = chat[t1].user
        /\ chat[t2].user_last = chat[t1].started_at
        /\ chat[t2].started_at = chat[t1].started_at + 5

\* the user turns of the prompt a request sent upstream
PromptUserTurns(t) == UserTurns(chat[t].messages)

(***************************************************************************)
(* C27.  After any sequence of requests, the history stored for a session  *)
(* holds at most session_max_turns user turns, and the prompt sent         *)
(* upstream that was built from the loaded history holds at most           *)
(* session_max_turns user turns.                                           *)
(***************************************************************************)
C27_HistoryAndPromptCapped ==
    /\ \A key \in DOMAIN sessions :
          UserTurns(sessions[key]) <= settings[key[1]].session_max_turns
    /\ \A t \in DOMAIN chat :
          /\ chat[t].pc \in { "dispatch", "store", "finally", "done" }
          /\ chat[t].use_session /\ chat[t].session_messages # << >>
          => PromptUserTurns(t) <= settings[chat[t].guild].session_max_turns

\* the latest reservation of a credential was written inside the window it was
\* counted in
ReservedInside(count, start, last_used_at, duration) ==
    count >= 1 /\ last_used_at # NoneVal =>
        start <= last_used_at /\ last_used_at < start + duration

(***************************************************************************)
(* C28.  For every persisted credential record each window count is >= 0   *)
(* and counts only reservations written inside [window_started_at,         *)
(* window_started_at + duration): no reservation is added to a window      *)
(* whose duration has elapsed when the write happens, also for the second  *)
(* and third candidate of a dispatch whose earlier attempts took time.     *)
(***************************************************************************)
C28_CountsInsideWindow ==
    \A k \in DOMAIN keys :
        /\ keys[k].minute_window_count >= 0
        /\ keys[k].day_count >= 0
        /\ ReservedInside(keys[k].minute_window_count, keys[k].minute_window_started_at,
                          keys[k].last_used_at, MINUTE_WINDOW_SECONDS)
        /\ ReservedInside(keys[k].day_count, keys[k].day_started_at,
                          keys[k].last_used_at, DAY_WINDOW_SECONDS)

(***************************************************************************)
(* C30.  A failure to persist an update of a credential record (usage      *)
(* reservation, error, cooldown or disable) does not abort the dispatch:   *)
(* no dispatch ends with the exception of the failed write.                *)
(***************************************************************************)
C30_FailedWriteDoesNotAbort ==
    \A d \in DOMAIN disp : disp[d].pc = "raised" => disp[d].raised # "StoreError"

\* a settings document whose default model is on its allowlist
DefaultAllowed(doc) ==
    /\ ModelKeys \subseteq DOMAIN doc
    /\ InList(doc.default_model_id, doc.model_allowlist)

(***************************************************************************)
(* C29.  Whenever _get_guild_settings has returned, the default model of   *)
(* the settings it returned is on their allowlist and the stored document  *)
(* of the guild has its default model on its allowlist as well; and the    *)
(* write of ai_admin_model_set leaves the new default on the stored        *)
(* allowlist.                                                              *)
(***************************************************************************)
C29_DefaultModelAllowed ==
    /\ [](\A t \in DOMAIN chat :
            chat[t].pc = "returned" => DefaultAllowed(chat[t].settings))
    /\ [][\A t \in DOMAIN chat :
            /\ SettingsUpsert(t) => DefaultAllowed(settings'[chat[t].guild])
            /\ ModelSet(t) =>
                 /\ settings'[chat[t].guild].default_model_id = chat[t].model_id
                 /\ DefaultAllowed(settings'[chat[t].guild])]_vars

\* attempt a is over with everything it had to do: the decryption failure
\* written, or the reservation written, the upstream outcome known and the
\* error, cooldown or disable update it calls for written
Completed(a) ==
    /\ Finished(a)
    /\ a.decrypt # "pending"
    /\ a.decrypt = "ok" =>
          /\ a.reserved_at # NoneVal
          /\ a.resp # NoResponse
          /\ HandleResponse(a.resp).write => a.wrote_at # NoneVal /\ a.wrote_at >= a.reserved_at
    /\ a.decrypt # "ok" /\ a.step = "continue" => a.wrote_at # NoneVal

(***************************************************************************)
(* C31.  Within one dispatch at most one candidate is under way: every     *)
(* attempt but the last is over, its upstream outcome known and its error, *)
(* cooldown or disable update written, no later than the next attempt's    *)
(* reservation; and at the step that begins the decryption of a later      *)
(* candidate the store holds the update of the attempt before it.          *)
(***************************************************************************)
C31_OneCandidateAtATime ==
    /\ [](\A d \in DOMAIN disp : \A i \in DOMAIN disp[d].attempts :
            i < Len(disp[d].attempts) =>
               LET a == disp[d].attempts[i]
                   b == disp[d].attempts[i + 1]
               IN  /\ Completed(a)
                   /\ a.idx < b.idx
                   /\ a.wrote_at # NoneVal /\ b.reserved_at # NoneVal
                        => a.wrote_at <= b.reserved_at)
    /\ [][\A d \in DOMAIN disp :
            Len(disp'[d].attempts) > Len(disp[d].attempts) /\ disp[d].attempts # << >>
            => LET a == disp[d].attempts[Len(disp[d].attempts)]
               IN  /\ Completed(a)
                   /\ a.wrote_at # NoneVal
                        => /\ keys[a.key].last_error_at = a.wrote_at
                           /\ a.step = "notify" => ~ keys[a.key].enabled]_vars

C31_Witness ==
    \E d \in DOMAIN disp :
        /\ Len(disp[d].attempts) >= 2
        /\ disp[d].attempts[1].wrote_at # NoneVal
        /\ disp[d].attempts[2].reserved_at # NoneVal
        /\ disp[d].attempts[1].reserved_at < disp[d].attempts[2].reserved_at
        /\ disp[d].pc = "calling"

\* task t holds the lock of some guild
HoldsLock(t) == \E g \in DOMAIN guild_locks : guild_locks[g] = t

(***************************************************************************)
(* C32.  The task that holds a guild's lock is inside the read-modify-     *)
(* write of that guild's counter, in _acquire_guild_slot or in             *)
(* _release_guild_slot; a request in the body of its try statement, where  *)
(* the upstream call and the storage operations are made, holds no lock    *)
(* and has its slot counted; and the body runs without the lock from its   *)
(* first step to its last.                                                 *)
(***************************************************************************)
C32_LockOnlyAroundCounter ==
    /\ [](/\ \A g \in DOMAIN guild_locks :
               guild_locks[g] # NoTask =>
                  /\ gate[guild_locks[g]].guild = g
                  /\ gate[guild_locks[g]].pc \in
                        { "acq_read", "acq_decide", "rel_read", "rel_write" }
                  /\ requests[guild_locks[g]].phase \in { "acquiring", "releasing" }
          /\ \A t \in DOMAIN requests :
               requests[t].phase \in { "body", "finally" } =>
                  /\ ~ HoldsLock(t)
                  /\ inflight_get(guild_inflight, requests[t].guild) >= 1)
    /\ [][\A t \in DOMAIN requests :
            requests[t].phase = "body" /\ requests'[t].phase # "body"
            => ~ HoldsLock(t) /\ ~ HoldsLock(t)']_vars

C32_Witness ==
    \E t \in DOMAIN requests, u \in DOMAIN requests :
        /\ t # u
        /\ requests[t].phase = "body"
        /\ requests[u].guild = requests[t].guild
        /\ guild_locks[requests[t].guild] = u
        /\ requests[u].phase = "releasing"

\* dispatch d disabled key k: a 401 or 402 answer, or a payload that does not decrypt
DisabledBy(d, k) ==
    \E i \in DOMAIN disp[d].attempts :
        LET a == disp[d].attempts[i]
        IN  /\ a.key = k
            /\ a.wrote_at # NoneVal
            /\ \/ a.step = "notify"
               \/ a.decrypt \notin { "ok", "pending" }

(***************************************************************************)
(* C33.  No write of a dispatch turns enabled from false to true: through  *)
(* the reservations and error updates of every dispatch, concurrent ones   *)
(* included, a disabled credential stays disabled, and the only step that  *)
(* enables one is the admin's keys-enable command.                         *)
(***************************************************************************)
C33_DisabledUntilAdminEnables ==
    [][\A k \in DOMAIN keys :
          ~ keys[k].enabled /\ keys'[k].enabled => ai_admin_keys_enable(k)]_vars

C33_Witness ==
    \E k \in DOMAIN keys, d \in DOMAIN disp, e \in DOMAIN disp :
        /\ d # e
        /\ DisabledBy(d, k)
        /\ ~ keys[k].enabled
        /\ keys[k].last_error_code = NoneVal
        /\ \E i \in DOMAIN disp[e].attempts :
              /\ disp[e].attempts[i].key = k
              /\ disp[e].attempts[i].reserved_at # NoneVal
        /\ disp[e].pc = "calling"

(***************************************************************************)
(* C34.  _build_key_candidate gives two documents that differ only in      *)
(* last_used_at, last_error_code, last_error and last_error_at the same    *)
(* verdict at the same time, and when they are eligible the same score and *)
(* the same window values.                                                 *)
(***************************************************************************)
C34_DiagnosticsDoNotGate ==
    evald.op = "diagnose" =>
        /\ (evald.out = NoCandidate) <=> (evald.out_other = NoCandidate)
        /\ evald.out # NoCandidate =>
              /\ evald.out.score_num = evald.out_other.score_num
              /\ evald.out.score_den = evald.out_other.score_den
              /\ evald.out.minute_count = evald.out_other.minute_count
              /\ evald.out.day_count = evald.out_other.day_count
              /\ evald.out.minute_start = evald.out_other.minute_start
              /\ evald.out.day_start = evald.out_other.day_start

\* an eligible document with no error on record, and the same document with a
\* 401 and a last use on record
C34_Witness ==
    /\ evald.op = "diagnose"
    /\ evald.out # NoCandidate
    /\ evald.doc.last_error_code = NoneVal
    /\ evald.doc.last_used_at = NoneVal
    /\ evald.other.last_error_code = 401
    /\ evald.other.last_used_at # NoneVal
    /\ evald.out.score_num < evald.out.score_den

(***************************************************************************)
(* C37.  Two requests of one actor in one guild that have both been        *)
(* admitted, finished or not, started at least the guild's actor cooldown  *)
(* apart: the cooldown check, the admission and the commit of a request    *)
(* run without a suspension, so that no other request is checked between   *)
(* them.                                                                   *)
(***************************************************************************)
C37_AdmissionsACooldownApart ==
    \A t1 \in DOMAIN chat, t2 \in DOMAIN chat :
        /\ t1 # t2
        /\ Committed(t1) /\ Committed(t2)
        /\ chat[t1].guild = chat[t2].guild
        /\ chat[t1].user = chat[t2].user
        /\ chat[t1].started_at <= chat[t2].started_at
        => chat[t2].started_at - chat[t1].started_at
              >= settings[chat[t1].guild].user_cooldown_seconds * 10

\* the second request came exactly when the cooldown ran out, the first one
\* still in flight
C37_Witness ==
    \E t1 \in DOMAIN chat, t2 \in DOMAIN chat :
        /\ t1 # t2
        /\ chat[t1].pc \in { "loading", "dispatch" } /\ Committed(t2)
        /\ chat[t1].guild = chat[t2].guild
        /\ chat[t1].user = chat[t2].user
        /\ settings[chat[t1].guild].user_cooldown_seconds > 0
        /\ chat[t2].started_at - chat[t1].started_at
              = settings[chat[t1].guild].user_cooldown_seconds * 10

(***************************************************************************)
(* C35.  At the step that writes a reservation and sends the request with  *)
(* a credential, the stored record of that credential is enabled and not   *)
(* in cooldown, also when another dispatch has disabled it or put it in    *)
(* cooldown since this dispatch listed its candidates.                     *)
(***************************************************************************)
C35_NoCallWithIneligibleKey ==
    [][\A d \in DOMAIN disp :
          Reserve(d) =>
             LET k == Cand(disp[d]).doc.name
             IN  /\ keys[k].enabled
                 /\ ~ InCooldown(k, now)]_vars

(***************************************************************************)
(* C36.  Whenever _call_openrouter has returned, it returned a non-empty   *)
(* completion text or a non-empty error message.                           *)
(***************************************************************************)
C36_ReturnCarriesTextOrError ==
    \A d \in DOMAIN disp :
        disp[d].pc = "returned" =>
            TruthyMsg(disp[d].result_text) \/ TruthyMsg(disp[d].result_error)

\* the channels in which the actor has a session with active set
ActiveSessions ==
    { c \in SessionChannels :
        SessionKey(c) \in DOMAIN sessions /\ sessions[SessionKey(c)].active }

(***************************************************************************)
(* C40.  After any sequence of chat-start, ask and chat-reset commands of  *)
(* an actor in a guild, concurrent ones included, at most one of the       *)
(* actor's sessions in the guild has active set.                           *)
(***************************************************************************)
C40_AtMostOneActiveSession == Cardinality(ActiveSessions) <= 1

(***************************************************************************)
(* C39.  A request whose dispatch returned an error or no text writes      *)
(* nothing to the session store, from its load of the session to its end:  *)
(* messages, active and private_default of the session stay as the other   *)
(* commands leave them, and the only step of an ask that changes the       *)
(* store is the write after a successful completion.                       *)
(***************************************************************************)
C39_FailedRequestKeepsSession ==
    /\ [](\A t \in DOMAIN chat :
            chat[t].op = "ask" /\ chat[t].outcome \in { "error", "no_text" }
            => chat[t].pc = "done" /\ ~ chat[t].wrote)
    /\ [][\A t \in DOMAIN chat :
            chat[t].op = "ask" /\ chat'[t].op = "ask" /\ chat'[t] # chat[t]
            /\ sessions' # sessions
            => /\ chat[t].pc = "store" /\ chat[t].outcome = "ok"
               /\ chat'[t].wrote]_vars

\* an ask on a started chat failed and the session is as the request found it
C39_Witness ==
    \E t \in DOMAIN chat :
        /\ chat[t].op = "ask" /\ chat[t].pc = "done"
        /\ chat[t].outcome = "no_text"
        /\ chat[t].before # << >>
        /\ chat[t].before.active
        /\ chat[t].before.messages # << >>
        /\ get_ai_session(sessions, SessionKey(chat[t].channel)) = chat[t].before

(***************************************************************************)
(* C38.  When the dispatches of a guild run one after another and the      *)
(* limits of its credentials are not changed, no stored minute count       *)
(* exceeds its rpm_limit and no stored day count its rpd_limit.            *)
(***************************************************************************)
C38_CountsWithinLimits ==
    \A k \in DOMAIN keys :
        /\ keys[k].minute_window_count <= keys[k].rpm_limit
        /\ keys[k].day_count <= keys[k].rpd_limit

\* one key has used up its minute, the other its day, and the next dispatch
\* found no key to use
C38_Witness ==
    /\ \E k \in DOMAIN keys : keys[k].minute_window_count = keys[k].rpm_limit
    /\ \E k \in DOMAIN keys : keys[k].day_count = keys[k].rpd_limit
    /\ Len(upstream) >= 2
    /\ \E d \in DOMAIN disp : disp[d].pc = "returned" /\ disp[d].candidates = << >>

====
